---- MODULE Spec2Model ----
(***************************************************************************)
(* A model of the McuBoot session (spsdk_refeyn/mboot/mcuboot.py): the     *)
(* command/response exchange of _process_cmd, the read data phase of       *)
(* _read_data, the write data phase of _send_data and the operations built *)
(* on them.  Every call the session makes on its transport is one step of  *)
(* the model; what the transport (and the device behind it) answers is     *)
(* chosen nondeterministically within the bounds below.                    *)
(***************************************************************************)
EXTENDS Integers, Sequences, FiniteSets, TLC

(* ------------------------------ bounds --------------------------------- *)
\* Longest read length / write payload a caller asks for.
MaxLen == 3
\* Largest max-packet-size a device answers to GET_PROPERTY(MAX_PACKET_SIZE).
MaxPacket == 2
\* Largest piece size a device uses when it delivers a read data phase.
MaxPiece == 2
\* How many anomalies (abort, stray response, short or long delivery, failure
\* status at the end of a data phase) the transport shows within one operation.
MaxFaults == 1
\* The address the callers read from and write to.
BaseAddr == 16
\* How many of the last members of PropertyTag a device may support (it also may
\* support the first); the device rejects every other property.
MaxProps == 1
MaxWords == 2
MaxStatus == 300

(* ------------------------- program constants --------------------------- *)
DEFAULT_MAX_PACKET_SIZE == 32

\* StatusCode members the session names.
SUCCESS == "Success"
FAIL == "Fail"
NO_RESPONSE == "NoResponse"
SENDING_OPERATION_CONDITION_ERROR == "SendOperationConditionError"

\* CommandTag members the session names.
FLASH_ERASE_ALL == "FlashEraseAll"
READ_MEMORY == "ReadMemory"
WRITE_MEMORY == "WriteMemory"
FILL_MEMORY == "FillMemory"
GET_PROPERTY == "GetProperty"
CONFIGURE_MEMORY == "ConfigureMemory"
NO_COMMAND == "NoCommand"

\* CommandFlag members.
FLAG_NONE == "NONE"
HAS_DATA_PHASE == "HAS_DATA_PHASE"

\* PropertyTag members the session names.
AVAILABLE_COMMANDS == 7
MAX_PACKET_SIZE == 11
UNKNOWN == 255

\* The value None of an Optional field that holds a name otherwise.
None == "None"

(* ------------------------------ state ---------------------------------- *)
VARIABLES
    is_usb,           \* isinstance(self._interface.device, UsbDevice)
    need_data_split,  \* self._interface.need_data_split
    cmd_exception,    \* self._cmd_exception
    opened,           \* self._interface.is_opened
    status_code,      \* self._status_code
    max_packet_size,  \* self.max_packet_size: <<>> is None, <<n>> is n
    pc,               \* the transport call the running operation is about to make
    frame,            \* the local variables of the running operation
    cmd_packet,       \* the command packet of the running _process_cmd
    wire,             \* the calls made on the transport by the running operation
    progress,         \* the arguments of the progress callback's invocations
    result,           \* how the last operation ended
    dev,              \* the device behind the transport, during one operation
    queried,          \* the properties of which a lazy query was sent in this session
    available_commands_lst,  \* self.available_commands_lst, as the commands' tags
    pause_point,      \* self._pause_point: <<>> is None, <<n>> is n
    scope             \* the `with` statement that holds the session, and self.reopen

config == <<is_usb, need_data_split, cmd_exception>>
vars == <<is_usb, need_data_split, cmd_exception, opened, status_code,
          max_packet_size, pc, frame, cmd_packet, wire, progress, result, dev,
          queried, available_commands_lst, pause_point, scope>>

(* ----------------------------- helpers --------------------------------- *)
Min(a, b) == IF a < b THEN a ELSE b

\* data[i : j] of Python, on a sequence (0-based, j exclusive, clipped).
Slice(data, i, j) == SubSeq(data, i + 1, Min(j, Len(data)))

\* The bytes of the device's memory from address a, n of them.  A byte is
\* named by its address, so that order and position are observable.
Memory(a, n) == [i \in 1..n |-> a + i - 1]

(* --------------------------- packets, responses ------------------------ *)
\* CmdPacket(tag, flags, *args)
CmdPacket(tag, flags, params) == [tag |-> tag, flags |-> flags, params |-> params]

NoPacket == CmdPacket(NO_COMMAND, FLAG_NONE, <<>>)

\* A response read from the transport: its class, the echoed command tag, the
\* status, and the result words of the typed responses.
Response(class, tag, status, values, length) ==
    [class |-> class, cmd_tag |-> tag, status |-> status, values |-> values,
     length |-> length]

GenericResponse(tag, status) == Response("GenericResponse", tag, status, <<>>, 0)

GetPropertyResponse(status, values) ==
    Response("GetPropertyResponse", GET_PROPERTY, status, values, 0)

ReadMemoryResponse(status, length) ==
    Response("ReadMemoryResponse", READ_MEMORY, status, <<>>, length)

\* NoResponse(cmd_tag): the response synthesized on a timeout.
NoResponse(tag) == Response("NoResponse", tag, NO_RESPONSE, <<>>, 0)

(* ------------------------------ exceptions ----------------------------- *)
Exception(class, name, status) == [class |-> class, name |-> name, status |-> status]

McuBootConnectionError == Exception("McuBootConnectionError", "", None)

McuBootCommandError(name, status) == Exception("McuBootCommandError", name, status)

McuBootError == Exception("McuBootError", "", None)

TransportTimeout == Exception("TimeoutError", "", None)

McuBootDataAbortError == Exception("McuBootDataAbortError", "", None)

IndexError == Exception("IndexError", "", None)

SPSDKKeyError == Exception("SPSDKKeyError", "", None)

NoException == Exception("", "", None)

\* except McuBootError: the classes derived from McuBootError.
IsMcuBootError(e) ==
    e.class \in {"McuBootError", "McuBootCommandError", "McuBootConnectionError",
                 "McuBootDataAbortError"}

(* ------------------------- results of operations ----------------------- *)
\* How an operation ended: kind is "return" or "raise"; a returned value has a
\* type ("bytes", "words", "properties", "bool" or None) and sits in the field
\* of its type; a raised exception sits in exc.
Result(kind, type, value, list, flag, exc) ==
    [kind |-> kind, type |-> type, value |-> value, list |-> list, flag |-> flag,
     exc |-> exc]

NoResult == Result("none", None, <<>>, <<>>, FALSE, NoException)

ReturnedBytes(b) == Result("return", "bytes", b, <<>>, FALSE, NoException)

ReturnedWords(v) == Result("return", "words", v, <<>>, FALSE, NoException)

ReturnedProperties(l) == Result("return", "properties", <<>>, l, FALSE, NoException)

ReturnedBool(f) == Result("return", "bool", <<>>, <<>>, f, NoException)

\* A text, as the list of its pieces.
ReturnedText(text) == Result("return", "text", <<>>, text, FALSE, NoException)

ReturnedNone == Result("return", None, <<>>, <<>>, FALSE, NoException)

Raised(e) == Result("raise", None, <<>>, <<>>, FALSE, e)

(* ------------------- the running operation's locals -------------------- *)
\* Besides the locals of the operation: was_opened, whether the transport was
\* open when the operation was entered; cached, available_commands_lst at that
\* moment; response, the response of the last
\* _process_cmd; exit, how the last _process_cmd was left ("return" or "raise"),
\* with the session's status code at that moment and the exception raised.
\* family = None
NoFamily == "None"

NoFrame ==
    [op |-> "none", stage |-> "main", was_opened |-> FALSE, cached |-> <<>>,
     address |-> 0, length |-> 0, mem_id |-> 0, fast_mode |-> FALSE,
     payload |-> <<>>, prop_tag |-> 0,
     split |-> FALSE, payload_size |-> 0, packets |-> 0, remainder |-> 0,
     idx |-> 0, data_len |-> 0, data |-> <<>>,
     rd_length |-> 0, rd_data |-> <<>>,
     data_chunks |-> <<>>, chunk |-> 0, total_sent |-> 0, expect_response |-> FALSE,
     slept |-> <<>>,
     tag_idx |-> 0, property_list |-> <<>>,
     raw_values |-> <<>>, ext_mem_id |-> <<>>, family |-> NoFamily,
     code |-> 0, pattern |-> 0,
     response |-> GenericResponse(NO_COMMAND, None),
     exit |-> [how |-> "none", status_code |-> None, exc |-> NoException]]

\* No `with` statement holds the session; self.reopen is False.
NoScope == [state |-> "out", reopen |-> FALSE, closes |-> 0, raised |-> FALSE]

\* The device at the start of an operation: no anomaly shown yet, no data phase.
NoDevice == [faults |-> 0, addr |-> 0, owed |-> 0]

\* The session and the running operation, as one value.
Cur ==
    [status_code |-> status_code, max_packet_size |-> max_packet_size, pc |-> pc,
     frame |-> frame, cmd_packet |-> cmd_packet, wire |-> wire,
     progress |-> progress, result |-> result, dev |-> dev,
     queried |-> queried, available_commands_lst |-> available_commands_lst,
     pause_point |-> pause_point]

Become(s) ==
    /\ status_code' = s.status_code
    /\ max_packet_size' = s.max_packet_size
    /\ pc' = s.pc
    /\ frame' = s.frame
    /\ cmd_packet' = s.cmd_packet
    /\ wire' = s.wire
    /\ progress' = s.progress
    /\ result' = s.result
    /\ dev' = s.dev
    /\ queried' = s.queried
    /\ available_commands_lst' = s.available_commands_lst
    /\ pause_point' = s.pause_point
    /\ UNCHANGED <<is_usb, need_data_split, cmd_exception, opened, scope>>

\* The operation ends: it returns a value, or an exception leaves it.
Return(s, r) == [s EXCEPT !.pc = "idle", !.result = r]

Raise(s, e) == [s EXCEPT !.pc = "idle", !.result = Raised(e)]

\* A call on the transport and what it gave, as recorded in wire.
Call(name, packet, data, outcome, response) ==
    [call |-> name, packet |-> packet, data |-> data, outcome |-> outcome,
     response |-> response]

Called(s, call) == [s EXCEPT !.wire = Append(@, call)]

Fault(s) == [s EXCEPT !.dev.faults = @ + 1]

(* ------------------------------ _process_cmd --------------------------- *)
\* _process_cmd past the open check: the packet is about to be written.
SendCommand(s, packet) == [s EXCEPT !.cmd_packet = packet, !.pc = "write_command"]

\* _process_cmd(packet), where nothing between the caller and the operation's
\* caller catches the connection error of the open check.
ProcessCmd(s, packet) ==
    IF ~opened THEN Raise(s, McuBootConnectionError) ELSE SendCommand(s, packet)

\* _clamp_down_memory_id that gives 0 for every memory id.
ClampDownMemoryId_AlwaysZero(memory_id) == 0

\* _clamp_down_memory_id
ClampDownMemoryId(memory_id) ==
    IF memory_id > 255 \/ memory_id = 0 THEN memory_id ELSE 0

(* ------------------------------- read_memory --------------------------- *)
\* The loop over the sub-reads advancing the address by one per sub-read.
NextSubRead_UnitStride(s) ==
    LET f == s.frame
        data_len == IF f.idx = f.packets - 1 /\ f.remainder # 0
                    THEN f.remainder ELSE f.payload_size
        packet == CmdPacket(READ_MEMORY, FLAG_NONE,
                            <<f.address + f.idx, data_len, ClampDownMemoryId(f.mem_id)>>)
    IN  IF f.idx < f.packets
        THEN ProcessCmd([s EXCEPT !.frame.data_len = data_len], packet)
        ELSE Return(s, ReturnedBytes(f.data))

\* The head of the loop over the sub-reads of a split read: the next sub-read's
\* command enters _process_cmd, or the loop is over and data is returned.
NextSubRead(s) ==
    LET f == s.frame
        data_len == IF f.idx = f.packets - 1 /\ f.remainder # 0
                    THEN f.remainder ELSE f.payload_size
        packet == CmdPacket(READ_MEMORY, FLAG_NONE,
                            <<f.address + f.idx * f.payload_size, data_len,
                              ClampDownMemoryId(f.mem_id)>>)
    IN  IF f.idx < f.packets
        THEN ProcessCmd([s EXCEPT !.frame.data_len = data_len], packet)
        ELSE Return(s, ReturnedBytes(f.data))

\* read_memory on the split path, once the packet size is known.
SplitRead(s, payload_size) ==
    LET length == s.frame.length
        remainder == length % payload_size
        packets == (length \div payload_size) + (IF remainder # 0 THEN 1 ELSE 0)
    IN  NextSubRead([s EXCEPT !.frame.payload_size = payload_size,
                              !.frame.packets = packets,
                              !.frame.remainder = remainder,
                              !.frame.data = <<>>,
                              !.frame.idx = 0,
                              !.frame.stage = "main"])

\* read_memory on the single-command path.
SingleRead(s) ==
    LET f == s.frame
        packet == CmdPacket(READ_MEMORY, FLAG_NONE,
                            <<f.address, f.length, ClampDownMemoryId(f.mem_id)>>)
    IN  ProcessCmd(s, packet)

\* _read_data up to its first read of the transport.
StartReadData(s, length) ==
    IF ~opened
    THEN Raise(s, McuBootConnectionError)
    ELSE [s EXCEPT !.frame.rd_length = length, !.frame.rd_data = <<>>,
                   !.pc = "read_data"]

\* read_memory after _read_data returned ret.
ReadDataReturned(s, ret) ==
    IF s.frame.split
    THEN LET data == s.frame.data \o ret
             s1 == [s EXCEPT !.frame.data = data,
                             !.progress = Append(@, <<Len(data), s.frame.length>>)]
         IN  IF s1.status_code = NO_RESPONSE
             THEN Return(s1, ReturnedBytes(data))
             ELSE NextSubRead([s1 EXCEPT !.frame.idx = @ + 1])
    ELSE Return(s, ReturnedBytes(ret))

\* _read_data returning all it received.
ReadDataDone_NoTruncation(s, response) ==
    IF (Len(s.frame.rd_data) < s.frame.rd_length \/ s.status_code # SUCCESS)
       /\ cmd_exception
    THEN Raise(s, McuBootCommandError(READ_MEMORY, response.status))
    ELSE ReadDataReturned(s, s.frame.rd_data)

\* _read_data after its loop, left with `response` as the last response.
ReadDataDone(s, response) ==
    LET data == s.frame.rd_data
        length == s.frame.rd_length
    IN  IF (Len(data) < length \/ s.status_code # SUCCESS) /\ cmd_exception
        THEN Raise(s, McuBootCommandError(READ_MEMORY, response.status))
        ELSE ReadDataReturned(s, IF Len(data) > length THEN Slice(data, 0, length)
                                                        ELSE data)

\* The loop's body putting each piece in front of the data.
ReadDataBytes_Prepend(s, piece) ==
    LET data == piece \o s.frame.rd_data
    IN  [s EXCEPT !.frame.rd_data = data,
                  !.progress = IF s.frame.split THEN @
                               ELSE Append(@, <<Len(data), s.frame.rd_length>>),
                  !.pc = "read_data"]

\* The loop's body leaving the loop as soon as the bytes asked for are there,
\* without reading the response that ends the data phase.
ReadDataBytes_StopWhenComplete(s, piece) ==
    LET data == s.frame.rd_data \o piece
        s1 == [s EXCEPT !.frame.rd_data = data,
                        !.progress = IF s.frame.split THEN @
                                     ELSE Append(@, <<Len(data), s.frame.rd_length>>),
                        !.pc = "read_data"]
    IN  IF Len(data) >= s.frame.rd_length THEN ReadDataDone(s1, s.frame.response)
        ELSE s1

\* The body of the loop of _read_data for what a read gave: bytes are appended
\* (and reported, when the caller passed its callback on), a response sets the
\* status and ends the loop when it echoes READ_MEMORY.
ReadDataBytes(s, piece) ==
    LET data == s.frame.rd_data \o piece
    IN  [s EXCEPT !.frame.rd_data = data,
                  !.progress = IF s.frame.split THEN @
                               ELSE Append(@, <<Len(data), s.frame.rd_length>>),
                  !.pc = "read_data"]

\* The loop's body ending the loop at every response, whatever command it echoes.
ReadDataResponse_AnyResponseEnds(s, response) ==
    ReadDataDone([s EXCEPT !.status_code = response.status, !.pc = "read_data"], response)

ReadDataResponse(s, response) ==
    LET s1 == [s EXCEPT !.status_code = response.status, !.pc = "read_data"]
    IN  IF response.cmd_tag = READ_MEMORY THEN ReadDataDone(s1, response) ELSE s1

\* The handler of the timeout leaving the session's status as it was.
ReadDataTimeout_KeepStatus(s) == ReadDataDone(s, NoResponse(READ_MEMORY))

\* except TimeoutError in the loop of _read_data.
ReadDataTimeout(s) ==
    ReadDataDone([s EXCEPT !.status_code = NO_RESPONSE], NoResponse(READ_MEMORY))

(* ------------------------------- _send_data ---------------------------- *)
\* _send_data that does not look at the status of the terminal response.
SendDataDone_IgnoresStatus(s, response) ==
    Return([s EXCEPT !.status_code = response.status],
           ReturnedBool(s.frame.total_sent = Len(s.frame.payload)))

\* _send_data after the cycle of writes and reads: `response` is the terminal
\* response (read when a response is expected).
SendDataDone(s, response) ==
    LET f == s.frame
        total_to_send == Len(f.payload)
        s1 == [s EXCEPT !.status_code = response.status]
    IN  IF f.expect_response
        THEN IF response.status # SUCCESS
             THEN IF cmd_exception
                  THEN Raise(s1, McuBootCommandError(WRITE_MEMORY, response.status))
                  ELSE Return(s1, ReturnedBool(FALSE))
             ELSE Return(s1, ReturnedBool(f.total_sent = total_to_send))
        ELSE Return(s, ReturnedBool(f.total_sent = total_to_send))

\* The head of the loop over the chunks: the next chunk is about to be written,
\* or all are written and the terminal response is about to be read.
NextChunk(s) ==
    IF s.frame.chunk < Len(s.frame.data_chunks)
    THEN [s EXCEPT !.pc = "write_data"]
    ELSE IF s.frame.expect_response
         THEN [s EXCEPT !.pc = "read_final"]
         ELSE SendDataDone(s, NoResponse(NO_COMMAND))

\* _send_data(cmd_tag, data) up to its first call on the transport.
StartSendData(s, cmd_tag) ==
    IF ~opened
    THEN Raise(s, McuBootConnectionError)
    ELSE NextChunk([s EXCEPT !.frame.total_sent = 0, !.frame.chunk = 0,
                             !.frame.expect_response = (cmd_tag # NO_COMMAND)])

\* except TimeoutError around the cycle.
SendDataTimeout(s) ==
    Raise([s EXCEPT !.status_code = NO_RESPONSE], McuBootConnectionError)

\* The handler of the transport's error recording the sending-blocked status
\* whether or not a response is expected.
SendDataError_AlwaysBlocked(s) ==
    SendDataDone([s EXCEPT !.status_code = SENDING_OPERATION_CONDITION_ERROR],
                 NoResponse(NO_COMMAND))

\* except SPSDKError around the cycle.
SendDataError(s) ==
    IF s.frame.expect_response
    THEN [s EXCEPT !.pc = "read_after_error"]
    ELSE SendDataDone([s EXCEPT !.status_code = SENDING_OPERATION_CONDITION_ERROR],
                      NoResponse(NO_COMMAND))

(* ------------------------------ write_memory --------------------------- *)
\* A split that steps by one byte less than the size of its chunks.
RECURSIVE Chunks_Overlapping(_, _)
Chunks_Overlapping(data, size) ==
    IF Len(data) = 0 THEN <<>>
    ELSE <<Slice(data, 0, size)>>
         \o Chunks_Overlapping(Slice(data, IF size > 1 THEN size - 1 ELSE 1, Len(data)),
                               size)

\* The list [data[i : i + max_packet_size] for i in range(0, len(data), max_packet_size)].
RECURSIVE Chunks(_, _)
Chunks(data, size) ==
    IF Len(data) = 0 THEN <<>>
    ELSE <<Slice(data, 0, size)>> \o Chunks(Slice(data, size, Len(data)), size)

\* write_memory after _split_data gave data_chunks.
WriteMemoryCommand(s, data_chunks) ==
    LET f == s.frame
        packet == CmdPacket(WRITE_MEMORY, HAS_DATA_PHASE,
                            <<f.address, Len(f.payload), ClampDownMemoryId(f.mem_id)>>)
    IN  ProcessCmd([s EXCEPT !.frame.data_chunks = data_chunks,
                             !.frame.stage = "main"], packet)

(* --------------------------- _get_max_packet_size ---------------------- *)
\* The caller of _get_max_packet_size goes on with the packet size.
WithPacketSize(s, size) ==
    IF s.frame.op = "read_memory"
    THEN SplitRead(s, size)
    ELSE WriteMemoryCommand(s, Chunks(s.frame.payload, size))

\* _get_max_packet_size after its query: packet_size_property is `values`, or
\* None (values = <<>> and none = TRUE) and the default is taken.
PacketSizeProperty(s, values, none) ==
    LET property == IF none THEN <<DEFAULT_MAX_PACKET_SIZE>> ELSE values
    IN  IF Len(property) = 0
        THEN Raise(s, IndexError)
        ELSE WithPacketSize([s EXCEPT !.max_packet_size = <<property[1]>>], property[1])

\* _get_max_packet_size that does not look at the cached value.
GetMaxPacketSize_NoCacheTest(s) ==
    IF ~opened
    THEN PacketSizeProperty(s, <<>>, TRUE)
    ELSE SendCommand([s EXCEPT !.frame.stage = "max_packet_size"],
                     CmdPacket(GET_PROPERTY, FLAG_NONE, <<MAX_PACKET_SIZE, 0>>))

\* _get_max_packet_size
GetMaxPacketSize(s) ==
    IF s.max_packet_size # <<>>
    THEN WithPacketSize(s, s.max_packet_size[1])
    ELSE IF ~opened
         THEN PacketSizeProperty(s, <<>>, TRUE)
         ELSE SendCommand([s EXCEPT !.frame.stage = "max_packet_size"],
                          CmdPacket(GET_PROPERTY, FLAG_NONE, <<MAX_PACKET_SIZE, 0>>))

\* _split_data that asks for the packet size whatever the transport needs.
SplitData_AlwaysSplits(s) ==
    GetMaxPacketSize(s)

\* _split_data
SplitData(s) ==
    IF ~need_data_split
    THEN WriteMemoryCommand(s, <<s.frame.payload>>)
    ELSE GetMaxPacketSize(s)

(* ---------------------------- get_property_list ------------------------ *)
\* The tags of the members of PropertyTag, in the order of the enumeration.
PropertyTags ==
    <<0, 1, 2, 3, 4, 5, 6, 7, 8, 9, 10, 11, 12, 13, 14, 15, 16, 17, 18, 19, 20, 21,
      22, 23, 24, 25, 26, 27, 28, 29, 30, 31, 32, 33, 34, 36, 37, 255>>

\* A member of an enumeration of property tags: its label and description.
Member(label, description) == [label |-> label, description |-> description]

\* PropertyTag, by tag.
PropertyTag ==
    [tag \in {0, 1, 2, 3, 4, 5, 6, 7, 8, 9, 10, 11, 12, 13, 14, 15, 16, 17, 18, 19, 20, 21,
              22, 23, 24, 25, 26, 27, 28, 29, 30, 31, 32, 33, 34, 36, 37, 255} |->
        CASE tag = 0 -> Member("ListProperties", "List Properties")
          [] tag = 1 -> Member("CurrentVersion", "Current Version")
          [] tag = 2 -> Member("AvailablePeripherals", "Available Peripherals")
          [] tag = 3 -> Member("FlashStartAddress", "Flash Start Address")
          [] tag = 4 -> Member("FlashSize", "Flash Size")
          [] tag = 5 -> Member("FlashSectorSize", "Flash Sector Size")
          [] tag = 6 -> Member("FlashBlockCount", "Flash Block Count")
          [] tag = 7 -> Member("AvailableCommands", "Available Commands")
          [] tag = 8 -> Member("CrcCheckStatus", "CRC Check Status")
          [] tag = 9 -> Member("LastError", "Last Error Value")
          [] tag = 10 -> Member("VerifyWrites", "Verify Writes")
          [] tag = 11 -> Member("MaxPacketSize", "Max Packet Size")
          [] tag = 12 -> Member("ReservedRegions", "Reserved Regions")
          [] tag = 13 -> Member("ValidateRegions", "Validate Regions")
          [] tag = 14 -> Member("RamStartAddress", "RAM Start Address")
          [] tag = 15 -> Member("RamSize", "RAM Size")
          [] tag = 16 -> Member("SystemDeviceIdent", "System Device Identification")
          [] tag = 17 -> Member("FlashSecurityState", "Security State")
          [] tag = 18 -> Member("UniqueDeviceIdent", "Unique Device Identification")
          [] tag = 19 -> Member("FlashFacSupport", "Flash Fac. Support")
          [] tag = 20 -> Member("FlashAccessSegmentSize", "Flash Access Segment Size")
          [] tag = 21 -> Member("FlashAccessSegmentCount", "Flash Access Segment Count")
          [] tag = 22 -> Member("FlashReadMargin", "Flash Read Margin")
          [] tag = 23 -> Member("QspiInitStatus", "QuadSPI Initialization Status")
          [] tag = 24 -> Member("TargetVersion", "Target Version")
          [] tag = 25 -> Member("ExternalMemoryAttributes", "External Memory Attributes")
          [] tag = 26 -> Member("ReliableUpdateStatus", "Reliable Update Status")
          [] tag = 27 -> Member("FlashPageSize", "Flash Page Size")
          [] tag = 28 -> Member("IrqNotifierPin", "Irq Notifier Pin")
          [] tag = 29 -> Member("PfrKeystoreUpdateOpt", "PFR Keystore Update Opt")
          [] tag = 30 -> Member("ByteWriteTimeoutMs", "Byte Write Timeout in ms")
          [] tag = 31 -> Member("FuseLockedStatus", "Fuse Locked Status")
          [] tag = 32 -> Member("BootStatusRegister", "Boot Status Register")
          [] tag = 33 -> Member("FirmwareVersion", "Firmware Version")
          [] tag = 34 -> Member("FuseProgramVoltage", "Fuse Program Voltage")
          [] tag = 36 -> Member("SheFlashPartition", "Secure Hardware Extension: Flash Partition")
          [] tag = 37 -> Member("SheBootMode", "Secure Hardware Extension: Boot Mode")
          [] tag = 255 -> Member("Unknown", "Unknown property")]

\* PropertyTagKw45xx, by tag.
PropertyTagKw45xx ==
    [tag \in {10, 20, 21, 22} |->
        CASE tag = 10 -> Member("VerifyErase", "Verify Erase")
          [] tag = 20 -> Member("BootStatusRegister", "Boot Status Register")
          [] tag = 21 -> Member("FirmwareVersion", "Firmware Version")
          [] tag = 22 -> Member("FuseProgramVoltage", "Fuse Program Voltage")]

\* PropertyTagKw47xx, by tag.
PropertyTagKw47xx ==
    [tag \in {10, 20, 21, 34} |->
        CASE tag = 10 -> Member("VerifyErase", "Verify Erase")
          [] tag = 20 -> Member("BootStatusRegister", "Boot Status Register")
          [] tag = 21 -> Member("FirmwareVersion", "Firmware Version")
          [] tag = 34 -> Member("FuseProgramVoltage", "Fuse Program Voltage")]

\* PropertyTagMcxa1xx, by tag.
PropertyTagMcxa1xx ==
    [tag \in {17} |->
        CASE tag = 17 -> Member("LifeCycleState", "Life Cycle State")]

\* The keyword arguments of a table entry: the keys present and their values. A
\* 32-bit value of true_values and false_values is written as the pair of its
\* high and low 16 bits; mem_id is <<>> for None.
NoKwargs ==
    [keys |-> {}, str_format |-> "", true_values |-> {}, true_string |-> "",
     false_values |-> {}, false_string |-> "", enum |-> "", na_msg |-> "",
     mem_id |-> <<>>]

StrFormat(str_format) ==
    [NoKwargs EXCEPT !.keys = {"str_format"}, !.str_format = str_format]

Strings(true_string, false_string) ==
    [NoKwargs EXCEPT !.keys = {"true_string", "false_string"},
                     !.true_string = true_string, !.false_string = false_string]

ValuesAndStrings(true_values, true_string, false_values, false_string) ==
    [NoKwargs EXCEPT !.keys = {"true_values", "true_string",
                               "false_values", "false_string"},
                     !.true_values = true_values, !.true_string = true_string,
                     !.false_values = false_values, !.false_string = false_string]

Enum(enum, na_msg) ==
    [NoKwargs EXCEPT !.keys = {"enum", "na_msg"}, !.enum = enum, !.na_msg = na_msg]

MemId == [NoKwargs EXCEPT !.keys = {"mem_id"}]

Entry(class, kwargs) == [class |-> class, kwargs |-> kwargs]

\* PROPERTIES: the class and the kwargs of each tag of the base table.
PROPERTIES ==
    [tag \in {1, 2, 3, 4, 5, 6, 7, 8, 10, 9, 11, 12, 13, 14, 15, 16, 17, 18, 19, 20, 21, 22,
              23, 24, 25, 26, 27, 28, 29, 30, 31, 32, 33, 34, 36, 37, 255} |->
        CASE tag = 1 -> Entry("VersionValue", NoKwargs)
          [] tag = 2 -> Entry("AvailablePeripheralsValue", NoKwargs)
          [] tag = 3 -> Entry("IntValue", StrFormat("hex"))
          [] tag = 4 -> Entry("IntValue", StrFormat("size"))
          [] tag = 5 -> Entry("IntValue", StrFormat("size"))
          [] tag = 6 -> Entry("IntValue", StrFormat("dec"))
          [] tag = 7 -> Entry("AvailableCommandsValue", NoKwargs)
          [] tag = 8 -> Entry("EnumValue", Enum("StatusCode", "Unknown CRC Status code"))
          [] tag = 10 -> Entry("BoolValue", Strings("ON", "OFF"))
          [] tag = 9 -> Entry("EnumValue", Enum("StatusCode", "Unknown Error"))
          [] tag = 11 -> Entry("IntValue", StrFormat("size"))
          [] tag = 12 -> Entry("ReservedRegionsValue", NoKwargs)
          [] tag = 13 -> Entry("BoolValue", Strings("ON", "OFF"))
          [] tag = 14 -> Entry("IntValue", StrFormat("hex"))
          [] tag = 15 -> Entry("IntValue", StrFormat("size"))
          [] tag = 16 -> Entry("IntValue", StrFormat("hex"))
          [] tag = 17 -> Entry("BoolValue",
                        ValuesAndStrings({<<0, 0>>, <<23205, 23205>>}, "UNSECURE",
                                   {<<0, 1>>, <<49980, 49980>>}, "SECURE"))
          [] tag = 18 -> Entry("DeviceUidValue", NoKwargs)
          [] tag = 19 -> Entry("BoolValue", Strings("ON", "OFF"))
          [] tag = 20 -> Entry("IntValue", StrFormat("size"))
          [] tag = 21 -> Entry("IntValue", StrFormat("int32"))
          [] tag = 22 -> Entry("EnumValue", Enum("FlashReadMargin", "Unknown Margin"))
          [] tag = 23 -> Entry("EnumValue", Enum("StatusCode", "Unknown Error"))
          [] tag = 24 -> Entry("VersionValue", NoKwargs)
          [] tag = 25 -> Entry("ExternalMemoryAttributesValue", MemId)
          [] tag = 26 -> Entry("EnumValue", Enum("StatusCode", "Unknown Error"))
          [] tag = 27 -> Entry("IntValue", StrFormat("size"))
          [] tag = 28 -> Entry("IrqNotifierPinValue", NoKwargs)
          [] tag = 29 -> Entry("EnumValue", Enum("PfrKeystoreUpdateOpt", "Unknown"))
          [] tag = 30 -> Entry("IntValue", StrFormat("dec"))
          [] tag = 31 -> Entry("FuseLockedStatus", NoKwargs)
          [] tag = 32 -> Entry("IntValue", StrFormat("int32"))
          [] tag = 33 -> Entry("IntValue", StrFormat("int32"))
          [] tag = 34 -> Entry("BoolValue", Strings("Over Drive Voltage (2.5 V)",
                                              "Normal Voltage (1.8 V)"))
          [] tag = 36 -> Entry("SHEFlashPartition", NoKwargs)
          [] tag = 37 -> Entry("SHEBootMode", NoKwargs)
          [] tag = 255 -> Entry("IntListValue", StrFormat("hex"))]

PROPERTIES_KW45XX ==
    [tag \in {10, 20, 21, 22} |->
        CASE tag = 10 -> Entry("BoolValue", Strings("ENABLE", "DISABLE"))
          [] tag = 20 -> Entry("IntValue", StrFormat("hex"))
          [] tag = 21 -> Entry("IntValue", StrFormat("int32"))
          [] tag = 22 -> Entry("BoolValue", Strings("Over Drive Voltage (2.5 V)",
                                              "Normal Voltage (1.8 V)"))]

PROPERTIES_KW47XX ==
    [tag \in {10, 20, 21, 34} |->
        CASE tag = 10 -> Entry("BoolValue", Strings("ENABLE", "DISABLE"))
          [] tag = 20 -> Entry("IntValue", StrFormat("hex"))
          [] tag = 21 -> Entry("IntValue", StrFormat("int32"))
          [] tag = 34 -> Entry("BoolValue", Strings("Over Drive Voltage (2.5 V)",
                                              "Normal Voltage (1.8 V)"))]

PROPERTIES_MCXA1XX ==
    [tag \in {17} |->
        CASE tag = 17 -> Entry("BoolValue",
                        ValuesAndStrings({<<0, 0>>, <<23205, 23205>>}, "development life cycle",
                                   {<<0, 1>>, <<49980, 49980>>}, "deployment life cycle"))]

PROPERTIES_OVERRIDE ==
    [series \in {"kw47_series", "kw45_series", "mcxa1_series"} |->
        CASE series = "kw47_series" -> PROPERTIES_KW47XX
          [] series = "kw45_series" -> PROPERTIES_KW45XX
          [] series = "mcxa1_series" -> PROPERTIES_MCXA1XX]

PROPERTY_TAG_OVERRIDE ==
    [series \in {"kw47_series", "kw45_series", "mcxa1_series"} |->
        CASE series = "kw47_series" -> PropertyTagKw47xx
          [] series = "kw45_series" -> PropertyTagKw45xx
          [] series = "mcxa1_series" -> PropertyTagMcxa1xx]

\* The families of the decoding: no family, one family of each series that
\* overrides properties, and one family that overrides nothing.
Families == {NoFamily, "kw45b41z8", "kw47b42z97", "mcxa153", "lpc55s69"}

\* get_db(family).get_str(BLHOST, "overridden_properties", ""): the series whose
\* table overrides the properties of the family, "" when there is none.
OverriddenProperties(family) ==
    CASE family = "kw45b41z8" -> "kw45_series"
      [] family = "kw47b42z97" -> "kw47_series"
      [] family = "mcxa153" -> "mcxa1_series"
      [] OTHER -> ""

\* (1 << n) & value
BitSet(value, n) == (value \div (2 ^ n)) % 2 = 1

\* dict.update: the entries of `other` replace or extend those of `dict`.
Updated(dict, other) ==
    [key \in DOMAIN dict \cup DOMAIN other |->
        IF key \in DOMAIN other THEN other[key] ELSE dict[key]]

\* The classes whose constructor keeps raw_values[0].
FirstWordClasses ==
    {"IntValue", "BoolValue", "EnumValue", "VersionValue", "AvailablePeripheralsValue",
     "AvailableCommandsValue", "IrqNotifierPinValue"}

\* The constructor of the class finds every word it reads in raw_values (it
\* raises IndexError otherwise).
Constructible(class, raw_values) ==
    CASE class \in FirstWordClasses \cup {"SHEFlashPartition", "SHEBootMode"} ->
           Len(raw_values) >= 1
      [] class = "ReservedRegionsValue" -> Len(raw_values) % 2 = 0
      [] class = "ExternalMemoryAttributesValue" ->
           /\ Len(raw_values) >= 1
           /\ \A n \in 0..4 : BitSet(raw_values[1], n) => Len(raw_values) >= n + 2
      [] OTHER -> TRUE

\* ReservedRegionsValue: the (start, end) pairs from word i on whose end is not
\* zero, one after the other.
RECURSIVE Regions(_, _)
Regions(raw_values, i) ==
    IF i + 1 > Len(raw_values)
    THEN <<>>
    ELSE (IF raw_values[i + 1] = 0 THEN <<>> ELSE <<raw_values[i], raw_values[i + 1]>>)
         \o Regions(raw_values, i + 2)

\* ExternalMemoryAttributesValue: the field of bit n, when the bit is set in the
\* first word.
ExtMemField(raw_values, n, scale) ==
    IF BitSet(raw_values[1], n) THEN <<raw_values[n + 2] * scale>> ELSE <<>>

\* Version.from_int with minor and fixation exchanged.
from_int_MinorLast(value) ==
    LET mark == (value \div (2 ^ 24)) % 256
    IN  [mark |-> IF 64 < mark /\ mark < 91 THEN <<mark>> ELSE <<>>,
         major |-> (value \div (2 ^ 16)) % 256,
         minor |-> value % 256,
         fixation |-> (value \div (2 ^ 8)) % 256]

\* Version.from_int: the mark is the code of the character, <<>> for None.
from_int(value) ==
    LET mark == (value \div (2 ^ 24)) % 256
    IN  [mark |-> IF 64 < mark /\ mark < 91 THEN <<mark>> ELSE <<>>,
         major |-> (value \div (2 ^ 16)) % 256,
         minor |-> (value \div (2 ^ 8)) % 256,
         fixation |-> value % 256]

\* VersionValue.value as a list of integers: the mark, when there is one, then
\* major, minor and fixation.
VersionFields(version) ==
    version.mark \o <<version.major, version.minor, version.fixation>>

\* What the constructor of the class keeps of raw_values, as a list of integers.
Value(class, raw_values) ==
    CASE class = "VersionValue" -> VersionFields(from_int(raw_values[1]))
      [] class \in FirstWordClasses \ {"VersionValue"} -> <<raw_values[1]>>
      [] class = "SHEFlashPartition" ->
           <<raw_values[1] % 4, (raw_values[1] \div 256) % 4>>
      [] class = "SHEBootMode" ->
           <<raw_values[1] % (2 ^ 30), (raw_values[1] \div (2 ^ 30)) % 4>>
      [] class = "ReservedRegionsValue" -> Regions(raw_values, 1)
      [] class = "ExternalMemoryAttributesValue" ->
           <<raw_values[1]>> \o ExtMemField(raw_values, 0, 1)
                             \o ExtMemField(raw_values, 1, 1024)
                             \o ExtMemField(raw_values, 2, 1)
                             \o ExtMemField(raw_values, 3, 1)
                             \o ExtMemField(raw_values, 4, 1)
      [] class = "DeviceUidValue" ->
           [i \in 1..(4 * Len(raw_values)) |->
               (raw_values[((i - 1) \div 4) + 1] \div (256 ^ ((i - 1) % 4))) % 256]
      [] class = "FuseLockedStatus" ->
           [i \in 1..(3 * Len(raw_values)) |->
               LET count == (i - 1) \div 3
               IN  CASE (i - 1) % 3 = 0 -> raw_values[count + 1]
                     [] (i - 1) % 3 = 1 -> IF count = 0 THEN 0 ELSE 32 * count - 16
                     [] OTHER -> IF count = 0 THEN 16 ELSE 0]
      [] OTHER -> raw_values

\* cls(property_tag, raw_values, **kwargs): the object, named by PropertyTag.
PropertyValue(class, tag, raw_values, kwargs) ==
    [class |-> class, tag |-> tag,
     name |-> PropertyTag[tag].label, desc |-> PropertyTag[tag].description,
     value |-> Value(class, raw_values), kwargs |-> kwargs]

NoPropertyValue ==
    [class |-> "", tag |-> 0, name |-> "", desc |-> "", value |-> <<>>,
     kwargs |-> NoKwargs]

\* The outcome of parse_property_value: an object, or an exception.
Parsed(obj) == [kind |-> "return", obj |-> obj, exc |-> NoException]

ParseRaised(exc) == [kind |-> "raise", obj |-> NoPropertyValue, exc |-> exc]

\* parse_property_value without the names of the family.
parse_property_value_BaseNames(property_tag, raw_values, ext_mem_id, family) ==
    LET overridden_series == IF family = NoFamily THEN ""
                             ELSE OverriddenProperties(family)
        properties_dict == IF overridden_series # ""
                           THEN Updated(PROPERTIES, PROPERTIES_OVERRIDE[overridden_series])
                           ELSE PROPERTIES
        tag == IF property_tag \notin DOMAIN properties_dict THEN UNKNOWN
               ELSE property_tag
        property_value == properties_dict[tag]
    IN  IF ~Constructible(property_value.class, raw_values)
        THEN ParseRaised(IndexError)
        ELSE Parsed(PropertyValue(property_value.class, tag, raw_values,
                                  property_value.kwargs))

parse_property_value(property_tag, raw_values, ext_mem_id, family) ==
    LET overridden_series == IF family = NoFamily THEN ""
                             ELSE OverriddenProperties(family)
        properties_dict == IF overridden_series # ""
                           THEN Updated(PROPERTIES, PROPERTIES_OVERRIDE[overridden_series])
                           ELSE PROPERTIES
        tag == IF property_tag \notin DOMAIN properties_dict THEN UNKNOWN
               ELSE property_tag
        property_value == properties_dict[tag]
        cls == property_value.class
        kwargs == IF "mem_id" \in property_value.kwargs.keys
                  THEN [property_value.kwargs EXCEPT !.mem_id = ext_mem_id]
                  ELSE property_value.kwargs
        obj == PropertyValue(cls, tag, raw_values, kwargs)
    IN  CASE ~Constructible(cls, raw_values) -> ParseRaised(IndexError)
          [] Constructible(cls, raw_values) /\ overridden_series = "" -> Parsed(obj)
          [] OTHER ->
               LET members == PROPERTY_TAG_OVERRIDE[overridden_series]
               IN  IF tag \notin DOMAIN members
                   THEN ParseRaised(SPSDKKeyError)
                   ELSE Parsed([obj EXCEPT !.name = members[tag].label,
                                           !.desc = members[tag].description])

\* parse_property_value(property_tag.tag, values) of get_property_list: the
\* typed value.
ParsePropertyValue(tag, values) == parse_property_value(tag, values, <<>>, NoFamily).obj

\* get_property_list after its loop.
\* PropertyListDone recording SUCCESS also for an empty list.
PropertyListDone_AlwaysSuccess(s) ==
    LET list == s.frame.property_list
    IN  IF Len(list) = 0 /\ cmd_exception
        THEN Raise([s EXCEPT !.status_code = SUCCESS],
                   McuBootCommandError("GetPropertyList", SUCCESS))
        ELSE Return([s EXCEPT !.status_code = SUCCESS], ReturnedProperties(list))

\* PropertyListDone leaving the status of the last query for a list that is not
\* empty.
PropertyListDone_KeepsStatus(s) ==
    LET list == s.frame.property_list
    IN  IF Len(list) = 0
        THEN IF cmd_exception
             THEN Raise([s EXCEPT !.status_code = FAIL],
                        McuBootCommandError("GetPropertyList", FAIL))
             ELSE Return([s EXCEPT !.status_code = FAIL], ReturnedProperties(list))
        ELSE Return(s, ReturnedProperties(list))

PropertyListDone(s) ==
    LET list == s.frame.property_list
    IN  IF Len(list) = 0
        THEN IF cmd_exception
             THEN Raise([s EXCEPT !.status_code = FAIL],
                        McuBootCommandError("GetPropertyList", FAIL))
             ELSE Return([s EXCEPT !.status_code = FAIL], ReturnedProperties(list))
        ELSE Return([s EXCEPT !.status_code = SUCCESS], ReturnedProperties(list))

\* The head of the loop over PropertyTag: get_property of the next tag.
NextProperty(s) ==
    IF s.frame.tag_idx < Len(PropertyTags)
    THEN ProcessCmd(s, CmdPacket(GET_PROPERTY, FLAG_NONE,
                                 <<PropertyTags[s.frame.tag_idx + 1], 0>>))
    ELSE PropertyListDone(s)

\* The body of the loop after get_property gave `values` (<<>> also for None).
\* PropertyValues appending a value also for a tag that gave no words.
PropertyValues_NoSkip(s, values) ==
    LET tag == PropertyTags[s.frame.tag_idx + 1]
        list == Append(s.frame.property_list, ParsePropertyValue(tag, values))
    IN  NextProperty([s EXCEPT !.frame.property_list = list, !.frame.tag_idx = @ + 1])

PropertyValues(s, values) ==
    LET tag == PropertyTags[s.frame.tag_idx + 1]
        list == IF Len(values) > 0
                THEN Append(s.frame.property_list, ParsePropertyValue(tag, values))
                ELSE s.frame.property_list
    IN  IF Len(values) > 0
           /\ parse_property_value(tag, values, <<>>, NoFamily).kind = "raise"
        THEN Raise(s, parse_property_value(tag, values, <<>>, NoFamily).exc)
        ELSE NextProperty([s EXCEPT !.frame.property_list = list,
                                    !.frame.tag_idx = @ + 1])

(* --------------------- what follows a _process_cmd --------------------- *)
\* The tags of the members of CommandTag that the session names, in the order of
\* the enumeration.
CommandTags == <<0, 1, 3, 4, 5, 7, 17>>

\* AvailableCommandsValue(tag, raw_values).tags
AvailableCommandsTags(raw_values) ==
    LET value == raw_values[1]
        Available(tag) == tag > 0 /\ BitSet(value, tag - 1)
    IN  SelectSeq(CommandTags, Available)

\* available_commands after get_property gave `values` (<<>> also for None).
AvailableCommandsValues(s, values) ==
    IF Len(values) > 0
    THEN LET lst == AvailableCommandsTags(values)
         IN  Return([s EXCEPT !.available_commands_lst = lst], ReturnedWords(lst))
    ELSE Return(s, ReturnedWords(s.available_commands_lst))

\* _process_cmd returned `response` to its caller.
CommandReturned(s, response) ==
    LET f == s.frame
        ok == response.status = SUCCESS
        typed == response.class = "GetPropertyResponse"
    IN  CASE f.stage = "max_packet_size" ->
               IF ok /\ typed
               THEN PacketSizeProperty(s, response.values, FALSE)
               ELSE PacketSizeProperty(s, <<>>, TRUE)
          [] f.op \in {"flash_erase_all", "fill_memory", "configure_memory"} ->
               Return(s, ReturnedBool(ok))
          [] f.op = "get_property" ->
               IF ok
               THEN IF typed THEN Return(s, ReturnedWords(response.values))
                             ELSE Raise(s, McuBootError)
               ELSE Return(s, ReturnedNone)
          [] f.op = "get_property_list" ->
               IF ok
               THEN IF typed THEN PropertyValues(s, response.values)
                             ELSE Raise(s, McuBootError)
               ELSE PropertyValues(s, <<>>)
          [] f.op = "available_commands" ->
               IF ok
               THEN IF typed THEN AvailableCommandsValues(s, response.values)
                             ELSE Raise(s, McuBootError)
               ELSE AvailableCommandsValues(s, <<>>)
          [] f.op = "read_memory" ->
               IF f.split
               THEN IF ok THEN StartReadData(s, f.data_len)
                          ELSE Return(s, ReturnedBytes(<<>>))
               ELSE IF ok THEN StartReadData(s, response.length)
                          ELSE Return(s, ReturnedNone)
          [] f.op = "write_memory" ->
               IF ok THEN StartSendData(s, WRITE_MEMORY)
                     ELSE Return(s, ReturnedBool(FALSE))

\* _process_cmd raised the command error e.
CommandRaised(s, e) ==
    CASE s.frame.stage = "max_packet_size" /\ IsMcuBootError(e) ->
           PacketSizeProperty(s, <<>>, TRUE)
      [] s.frame.stage = "main" /\ s.frame.op = "get_property_list" ->
           NextProperty([s EXCEPT !.frame.tag_idx = @ + 1])
      [] s.frame.stage = "main" /\ s.frame.op = "available_commands" ->
           AvailableCommandsValues(s, <<>>)
      [] OTHER -> Raise(s, e)

\* _process_cmd that leaves the session's status as it was.
RecordStatus_Skip(s, response) == s

\* self._status_code = response.status
RecordStatus(s, response) == [s EXCEPT !.status_code = response.status]

\* The test of _process_cmd without the session's raise-on-error setting.
ShouldRaise_Always(s) == s.status_code # SUCCESS

\* if self._cmd_exception and self._status_code != StatusCode.SUCCESS
ShouldRaise(s) == cmd_exception /\ s.status_code # SUCCESS

\* How _process_cmd is left.
Exit(how, status, exc) == [how |-> how, status_code |-> status, exc |-> exc]

\* _process_cmd from the response on, with a write_memory that starts its data
\* phase whatever the status of the response.
ProcessResponse_WriteIgnoresStatus(s, response) ==
    LET s1 == [RecordStatus(s, response) EXCEPT !.frame.response = response]
        e == McuBootCommandError(s.cmd_packet.tag, response.status)
        s2 == [s1 EXCEPT !.frame.exit = Exit("return", s1.status_code, NoException)]
    IN  IF s.frame.op = "write_memory" /\ s.frame.stage = "main"
        THEN StartSendData(s2, WRITE_MEMORY)
        ELSE IF ShouldRaise(s1)
        THEN CommandRaised([s1 EXCEPT !.frame.exit = Exit("raise", s1.status_code, e)], e)
        ELSE CommandReturned(s2, response)

\* _process_cmd from the response on.
ProcessResponse(s, response) ==
    LET s1 == [RecordStatus(s, response) EXCEPT !.frame.response = response]
        e == McuBootCommandError(s.cmd_packet.tag, response.status)
    IN  IF ShouldRaise(s1)
        THEN CommandRaised([s1 EXCEPT !.frame.exit = Exit("raise", s1.status_code, e)], e)
        ELSE CommandReturned(
                 [s1 EXCEPT !.frame.exit = Exit("return", s1.status_code, NoException)],
                 response)

\* _process_cmd that lets the transport's timeout out.
CommandTimeout_Raises(s) == Raise(s, TransportTimeout)

\* except TimeoutError in _process_cmd
CommandTimeout(s) ==
    ProcessResponse([s EXCEPT !.status_code = NO_RESPONSE], NoResponse(s.cmd_packet.tag))

(* ------------------------- the transport's answers --------------------- *)
\* What a read gives when no response is read.
Nothing == GenericResponse(NO_COMMAND, None)

\* The properties the device may support, answer without words, answer with a
\* response of the wrong class, or not answer (any other it rejects).
CandidateTags ==
    {PropertyTags[1]} \cup
    {PropertyTags[i] : i \in (Len(PropertyTags) - MaxProps + 1)..Len(PropertyTags)}

\* Whether the transport may show one more anomaly.  In get_property_list it
\* shows them on the properties of CandidateTags only.
MayFault ==
    /\ dev.faults < MaxFaults
    /\ frame.op = "get_property_list" => cmd_packet.params[1] \in CandidateTags

\* The words of the device's answer to GET_PROPERTY(tag).
PropertyWords(tag) ==
    CASE tag = MAX_PACKET_SIZE -> {<<n>> : n \in 1..MaxPacket}
      [] tag = AVAILABLE_COMMANDS -> {<<0>>, <<5>>}
      [] OTHER -> {<<tag + 1, tag + 2>>}

\* The responses the device may give to cmd_packet, each with the device's state
\* after it and whether it is an anomaly.
Answer(response, device, fault) == [response |-> response, dev |-> device, fault |-> fault]

Answers ==
    LET tag == cmd_packet.tag
        p == cmd_packet.params
    IN  CASE tag = READ_MEMORY ->
               {Answer(ReadMemoryResponse(SUCCESS, p[2]),
                       [dev EXCEPT !.addr = p[1], !.owed = p[2]], FALSE),
                Answer(ReadMemoryResponse(SUCCESS, p[2] + 1),
                       [dev EXCEPT !.addr = p[1], !.owed = p[2] + 1], TRUE),
                Answer(ReadMemoryResponse(FAIL, 0), dev, FALSE)}
               \cup (IF p[2] > 0
                     THEN {Answer(ReadMemoryResponse(SUCCESS, p[2] - 1),
                                  [dev EXCEPT !.addr = p[1], !.owed = p[2] - 1], TRUE)}
                     ELSE {})
          [] tag = GET_PROPERTY /\ frame.op = "get_property_list"
                                /\ p[1] \notin CandidateTags ->
               {Answer(GetPropertyResponse(FAIL, <<>>), dev, FALSE)}
          [] tag = GET_PROPERTY /\ (frame.op # "get_property_list"
                                    \/ p[1] \in CandidateTags) ->
               {Answer(GetPropertyResponse(SUCCESS, v), dev, FALSE)
                    : v \in PropertyWords(p[1])}
               \cup {Answer(GetPropertyResponse(FAIL, <<>>), dev, FALSE),
                     Answer(GetPropertyResponse(SUCCESS, <<>>), dev, TRUE),
                     Answer(GenericResponse(GET_PROPERTY, SUCCESS), dev, TRUE)}
          [] OTHER ->
               {Answer(GenericResponse(tag, st), dev, FALSE) : st \in {SUCCESS, FAIL}}

(* ------------------------------- actions ------------------------------- *)
\* McuBoot.__init__, for a transport of either class, with or without
\* raise-on-error.
Init ==
    /\ is_usb \in BOOLEAN
    /\ need_data_split \in BOOLEAN
    /\ cmd_exception \in BOOLEAN
    /\ opened = FALSE
    /\ status_code = SUCCESS
    /\ max_packet_size = <<>>
    /\ pc = "idle"
    /\ frame = NoFrame
    /\ cmd_packet = NoPacket
    /\ wire = <<>>
    /\ progress = <<>>
    /\ result = NoResult
    /\ dev = NoDevice
    /\ queried = {}
    /\ available_commands_lst = <<>>
    /\ pause_point = <<>>
    /\ scope = NoScope

\* open
Open ==
    /\ pc = "idle"
    /\ opened' = TRUE
    /\ UNCHANGED <<is_usb, need_data_split, cmd_exception, status_code,
                   max_packet_size, pc, frame, cmd_packet, wire, progress, result, dev,
                   queried, available_commands_lst, pause_point, scope>>

\* close
Close ==
    /\ pc = "idle"
    /\ opened' = FALSE
    /\ UNCHANGED <<is_usb, need_data_split, cmd_exception, status_code,
                   max_packet_size, pc, frame, cmd_packet, wire, progress, result, dev,
                   queried, available_commands_lst, pause_point, scope>>

\* The session as an operation is entered.
Entered(op) ==
    [Cur EXCEPT !.frame = [NoFrame EXCEPT !.op = op, !.was_opened = opened,
                                          !.cached = available_commands_lst],
                !.cmd_packet = NoPacket, !.wire = <<>>, !.progress = <<>>,
                !.result = NoResult, !.dev = NoDevice]

\* flash_erase_all that clamps the memory id as read_memory does.
flash_erase_all_Clamped(mem_id) ==
    /\ pc = "idle"
    /\ Become(ProcessCmd([Entered("flash_erase_all") EXCEPT !.frame.mem_id = mem_id],
                         CmdPacket(FLASH_ERASE_ALL, FLAG_NONE,
                                   <<ClampDownMemoryId(mem_id)>>)))

flash_erase_all(mem_id) ==
    /\ pc = "idle"
    /\ Become(ProcessCmd([Entered("flash_erase_all") EXCEPT !.frame.mem_id = mem_id],
                         CmdPacket(FLASH_ERASE_ALL, FLAG_NONE, <<mem_id>>)))

\* fill_memory with the pattern before the length in the packet.
fill_memory_PatternFirst(address, length, pattern) ==
    /\ pc = "idle"
    /\ Become(ProcessCmd([Entered("fill_memory") EXCEPT !.frame.address = address,
                                                         !.frame.length = length,
                                                         !.frame.pattern = pattern],
                         CmdPacket(FILL_MEMORY, FLAG_NONE, <<address, pattern, length>>)))

fill_memory(address, length, pattern) ==
    /\ pc = "idle"
    /\ Become(ProcessCmd([Entered("fill_memory") EXCEPT !.frame.address = address,
                                                         !.frame.length = length,
                                                         !.frame.pattern = pattern],
                         CmdPacket(FILL_MEMORY, FLAG_NONE, <<address, length, pattern>>)))

configure_memory(address, mem_id) ==
    /\ pc = "idle"
    /\ Become(ProcessCmd([Entered("configure_memory") EXCEPT !.frame.address = address,
                                                              !.frame.mem_id = mem_id],
                         CmdPacket(CONFIGURE_MEMORY, FLAG_NONE, <<mem_id, address>>)))

get_property(prop_tag, index) ==
    /\ pc = "idle"
    /\ Become(ProcessCmd([Entered("get_property") EXCEPT !.frame.prop_tag = prop_tag],
                         CmdPacket(GET_PROPERTY, FLAG_NONE, <<prop_tag, index>>)))

\* available_commands without the test of the cached list.
available_commands_NoCache ==
    /\ pc = "idle"
    /\ LET s == Entered("available_commands")
       IN  Become(ProcessCmd([s EXCEPT !.frame.prop_tag = AVAILABLE_COMMANDS],
                             CmdPacket(GET_PROPERTY, FLAG_NONE,
                                       <<AVAILABLE_COMMANDS, 0>>)))

available_commands ==
    /\ pc = "idle"
    /\ LET s == Entered("available_commands")
       IN  Become(IF Len(available_commands_lst) > 0
                  THEN Return(s, ReturnedWords(available_commands_lst))
                  ELSE ProcessCmd([s EXCEPT !.frame.prop_tag = AVAILABLE_COMMANDS],
                                  CmdPacket(GET_PROPERTY, FLAG_NONE,
                                            <<AVAILABLE_COMMANDS, 0>>)))

get_property_list ==
    /\ pc = "idle"
    /\ Become(NextProperty(Entered("get_property_list")))

read_memory(address, length, mem_id, fast_mode) ==
    /\ pc = "idle"
    /\ LET s == [Entered("read_memory") EXCEPT !.frame.address = address,
                                                !.frame.length = length,
                                                !.frame.mem_id = mem_id,
                                                !.frame.fast_mode = fast_mode,
                                                !.frame.split = is_usb /\ ~fast_mode]
       IN  Become(IF s.frame.split THEN GetMaxPacketSize(s) ELSE SingleRead(s))

write_memory(address, data, mem_id) ==
    /\ pc = "idle"
    /\ Become(SplitData([Entered("write_memory") EXCEPT !.frame.address = address,
                                                         !.frame.payload = data,
                                                         !.frame.mem_id = mem_id]))

FlashEraseAll == \E mem_id \in {0, 9} : flash_erase_all(mem_id)

FillMemory == \E length \in {4} : fill_memory(BaseAddr, length, 7)

ConfigureMemory == \E mem_id \in {0, 9} : configure_memory(BaseAddr, mem_id)

GetProperty == \E prop_tag \in {1, MAX_PACKET_SIZE} : get_property(prop_tag, 0)

GetPropertyList == get_property_list

ReadMemoryOf(lengths) ==
    \E length \in lengths, fast_mode \in BOOLEAN :
        read_memory(BaseAddr, length, 0, fast_mode)

WriteMemoryOf(lengths) ==
    \E n \in lengths : write_memory(BaseAddr, Memory(BaseAddr, n), 0)

ReadMemory == ReadMemoryOf(0..MaxLen)

WriteMemory == WriteMemoryOf((0..MaxLen) \cup {DEFAULT_MAX_PACKET_SIZE + 1})

\* Transfers of at most one byte.
ReadMemoryShort == ReadMemoryOf(0..1)

WriteMemoryShort == WriteMemoryOf(0..1)

\* The session as the command of _process_cmd is handed to the transport: a
\* query of _get_max_packet_size or of available_commands is remembered.
Sending(s) ==
    CASE s.frame.stage = "max_packet_size" ->
           [s EXCEPT !.queried = @ \cup {MAX_PACKET_SIZE}]
      [] s.frame.op = "available_commands" ->
           [s EXCEPT !.queried = @ \cup {AVAILABLE_COMMANDS}]
      [] OTHER -> s

\* self._interface.write_command(cmd_packet) in _process_cmd
WriteCommand ==
    /\ pc = "write_command"
    /\ \/ Become([Called(Sending(Cur), Call("write_command", cmd_packet, <<>>, "ok",
                                            Nothing))
                    EXCEPT !.pc = "read_response"])
       \/ /\ MayFault
          /\ Become(CommandTimeout(
                 Fault(Called(Sending(Cur), Call("write_command", cmd_packet, <<>>,
                                                 "timeout", Nothing)))))

\* response = self._interface.read() in _process_cmd
ReadResponse ==
    /\ pc = "read_response"
    /\ \/ \E a \in Answers :
             /\ a.fault => MayFault
             /\ LET s == Called([Cur EXCEPT !.dev = a.dev],
                                Call("read", NoPacket, <<>>, "response", a.response))
                IN  Become(ProcessResponse(IF a.fault THEN Fault(s) ELSE s, a.response))
       \/ /\ MayFault
          /\ Become(CommandTimeout(
                 Fault(Called(Cur, Call("read", NoPacket, <<>>, "timeout", Nothing)))))

\* What a read of the data phase gives, with the device after it: bytes of the
\* memory asked for (some more, as an anomaly), or the response that ends the
\* phase (early, or with a failure status, as an anomaly), or a response that
\* echoes another command (an anomaly).
DataReads ==
    {Answer(Response("bytes", None, None, Memory(dev.addr, n), n),
            [dev EXCEPT !.addr = @ + n, !.owed = @ - n], FALSE)
        : n \in 1..Min(MaxPiece, dev.owed)}
    \cup (IF dev.owed = 0
          THEN {Answer(Response("bytes", None, None, Memory(dev.addr, 1), 1),
                       [dev EXCEPT !.addr = @ + 1], TRUE)}
          ELSE {})
    \cup {Answer(GenericResponse(READ_MEMORY, SUCCESS), dev, dev.owed > 0),
          Answer(GenericResponse(READ_MEMORY, FAIL), dev, TRUE)}
    \cup {Answer(GenericResponse(GET_PROPERTY, st), dev, TRUE) : st \in {SUCCESS, FAIL}}

\* The body of the loop of _read_data for what the read gave.
ReadDataGot(s, a) ==
    LET read == a.response
        s0 == [s EXCEPT !.dev = a.dev]
        s1 == IF a.fault THEN Fault(s0) ELSE s0
    IN  IF read.class = "bytes"
        THEN ReadDataBytes(Called(s1, Call("read", NoPacket, read.values, "bytes", Nothing)),
                           read.values)
        ELSE ReadDataResponse(Called(s1, Call("read", NoPacket, <<>>, "response", read)),
                              read)

\* response = self._interface.read() in the loop of _read_data
ReadData ==
    /\ pc = "read_data"
    /\ \/ \E a \in DataReads :
             /\ a.fault => MayFault
             /\ Become(ReadDataGot(Cur, a))
       \/ /\ MayFault
          /\ Become(ReadDataTimeout(
                 Fault(Called(Cur, Call("read", NoPacket, <<>>, "timeout", Nothing)))))
       \/ /\ MayFault
          /\ Become([Fault(Called(Cur, Call("read", NoPacket, <<>>, "abort", Nothing)))
                       EXCEPT !.pc = "read_retry"])

\* response = self._interface.read() in the handler of McuBootDataAbortError
ReadDataRetry ==
    /\ pc = "read_retry"
    /\ \/ \E a \in DataReads : ~a.fault /\ Become(ReadDataGot(Cur, a))
       \/ Become(Raise(Called(Cur, Call("read", NoPacket, <<>>, "timeout", Nothing)),
                       TransportTimeout))
       \/ Become(Raise(Called(Cur, Call("read", NoPacket, <<>>, "abort", Nothing)),
                       McuBootDataAbortError))

\* The end of the loop's body in _send_data that sleeps and keeps the pause
\* point.
PausePoint_KeepsPoint(s, total_sent) ==
    IF s.pause_point # <<>> /\ s.pause_point[1] # 0 /\ total_sent > s.pause_point[1]
    THEN [s EXCEPT !.frame.slept = Append(@, total_sent)]
    ELSE s

\* if self._pause_point and total_sent > self._pause_point: time.sleep(0.1) and
\* self._pause_point = None; frame.slept lists the values of total_sent at which
\* time.sleep was called by the running operation.
PausePoint(s, total_sent) ==
    IF s.pause_point # <<>> /\ s.pause_point[1] # 0 /\ total_sent > s.pause_point[1]
    THEN [s EXCEPT !.frame.slept = Append(@, total_sent), !.pause_point = <<>>]
    ELSE s

\* self._interface.write_data(data_chunk) in _send_data, and the rest of the
\* loop's body
WriteData ==
    /\ pc = "write_data"
    /\ LET data_chunk == frame.data_chunks[frame.chunk + 1]
           total_sent == frame.total_sent + Len(data_chunk)
           call(outcome) == Called(Cur, Call("write_data", NoPacket, data_chunk, outcome,
                                             Nothing))
       IN  \/ Become(NextChunk(PausePoint(
                      [call("ok") EXCEPT
                          !.frame.total_sent = total_sent,
                          !.frame.chunk = @ + 1,
                          !.progress = Append(@, <<total_sent, Len(frame.payload)>>)],
                      total_sent)))
           \/ MayFault /\ Become(SendDataTimeout(Fault(call("timeout"))))
           \/ MayFault /\ Become(SendDataError(Fault(call("abort"))))

\* response = self._interface.read() after the last chunk in _send_data
ReadFinal ==
    /\ pc = "read_final"
    /\ \/ \E st \in {SUCCESS, FAIL} :
             LET response == GenericResponse(WRITE_MEMORY, st)
             IN  Become(SendDataDone(
                     Called(Cur, Call("read", NoPacket, <<>>, "response", response)),
                     response))
       \/ /\ MayFault
          /\ Become(SendDataTimeout(
                 Fault(Called(Cur, Call("read", NoPacket, <<>>, "timeout", Nothing)))))
       \/ /\ MayFault
          /\ Become(SendDataError(
                 Fault(Called(Cur, Call("read", NoPacket, <<>>, "abort", Nothing)))))

\* response = self._interface.read() in the handler of SPSDKError in _send_data
ReadAfterError ==
    /\ pc = "read_after_error"
    /\ \/ \E st \in {SUCCESS, FAIL} :
             LET response == GenericResponse(WRITE_MEMORY, st)
             IN  Become(SendDataDone(
                     Called(Cur, Call("read", NoPacket, <<>>, "response", response)),
                     response))
       \/ Become(Raise(Called(Cur, Call("read", NoPacket, <<>>, "timeout", Nothing)),
                       TransportTimeout))
       \/ Become(Raise(Called(Cur, Call("read", NoPacket, <<>>, "abort", Nothing)),
                       McuBootDataAbortError))

\* one session, every operation, transfers of at most one byte
NextSession ==
    \/ Open
    \/ Close
    \/ FlashEraseAll
    \/ FillMemory
    \/ ConfigureMemory
    \/ GetProperty
    \/ GetPropertyList
    \/ available_commands
    \/ ReadMemoryShort
    \/ WriteMemoryShort
    \/ WriteCommand
    \/ ReadResponse
    \/ ReadData
    \/ ReadDataRetry
    \/ WriteData
    \/ ReadFinal
    \/ ReadAfterError

SpecSession == Init /\ [][NextSession]_vars

\* one session that reads memory (read_memory does not read need_data_split)
InitRead == Init /\ need_data_split

NextRead ==
    \/ Open
    \/ Close
    \/ ReadMemory
    \/ WriteCommand
    \/ ReadResponse
    \/ ReadData
    \/ ReadDataRetry

SpecRead == InitRead /\ [][NextRead]_vars

\* one session that writes memory (write_memory does not read the device's class)
InitWrite == Init /\ is_usb = need_data_split

NextWrite ==
    \/ Open
    \/ Close
    \/ WriteMemory
    \/ WriteCommand
    \/ ReadResponse
    \/ WriteData
    \/ ReadFinal
    \/ ReadAfterError

SpecWrite == InitWrite /\ [][NextWrite]_vars

\* The values of self._pause_point that the application gives the session: None,
\* or a number of bytes.
PausePoints == {<<>>} \cup {<<n>> : n \in 0..MaxLen}

\* one session that writes memory, with a pause point assigned to it after its
\* construction
InitPause ==
    /\ is_usb \in BOOLEAN
    /\ need_data_split = is_usb
    /\ cmd_exception \in BOOLEAN
    /\ opened = FALSE
    /\ status_code = SUCCESS
    /\ max_packet_size = <<>>
    /\ pc = "idle"
    /\ frame = NoFrame
    /\ cmd_packet = NoPacket
    /\ wire = <<>>
    /\ progress = <<>>
    /\ result = NoResult
    /\ dev = NoDevice
    /\ queried = {}
    /\ available_commands_lst = <<>>
    /\ pause_point \in PausePoints
    /\ scope = NoScope

WriteMemoryPaused == WriteMemoryOf(0..MaxLen)

NextPause ==
    \/ Open
    \/ Close
    \/ WriteMemoryPaused
    \/ WriteCommand
    \/ ReadResponse
    \/ WriteData
    \/ ReadFinal
    \/ ReadAfterError

SpecPause == InitPause /\ [][NextPause]_vars

\* one session that reads and writes two bytes of memory: a USB transport whose
\* data is split, or another transport whose data is not
InitTransfer == Init /\ is_usb = need_data_split

ReadMemoryPair == ReadMemoryOf({2})

WriteMemoryPair == WriteMemoryOf({2})

NextTransfer ==
    \/ Open
    \/ Close
    \/ ReadMemoryPair
    \/ WriteMemoryPair
    \/ WriteCommand
    \/ ReadResponse
    \/ ReadData
    \/ ReadDataRetry
    \/ WriteData
    \/ ReadFinal
    \/ ReadAfterError

SpecTransfer == InitTransfer /\ [][NextTransfer]_vars

\* The tags handed to parse_property_value: the members of PropertyTag and tags
\* that are no member.
InputTags == (0..38) \cup {UNKNOWN}

\* The raw word lists: up to n words.
RECURSIVE WordLists(_)
WordLists(n) ==
    IF n = 0 THEN {<<>>}
    ELSE WordLists(n - 1) \cup {Append(l, w) : l \in WordLists(n - 1), w \in 0..2}

InitProperties ==
    /\ is_usb = FALSE
    /\ need_data_split = FALSE
    /\ cmd_exception = FALSE
    /\ opened = FALSE
    /\ status_code = SUCCESS
    /\ max_packet_size = <<>>
    /\ pc = "idle"
    /\ \E tag \in InputTags, raw_values \in WordLists(MaxWords),
          ext_mem_id \in {<<>>, <<1>>}, family \in Families :
           frame = [NoFrame EXCEPT !.prop_tag = tag, !.raw_values = raw_values,
                                   !.ext_mem_id = ext_mem_id, !.family = family]
    /\ cmd_packet = NoPacket
    /\ wire = <<>>
    /\ progress = <<>>
    /\ result = NoResult
    /\ dev = NoDevice
    /\ queried = {}
    /\ available_commands_lst = <<>>
    /\ pause_point = <<>>
    /\ scope = NoScope

\* A call of parse_property_value with the arguments drawn.
ParseProperty ==
    /\ pc = "idle" /\ frame.op = "none"
    /\ LET out == parse_property_value(frame.prop_tag, frame.raw_values,
                                       frame.ext_mem_id, frame.family)
       IN  Become([Cur EXCEPT !.frame.op = "parse_property_value",
                              !.result = IF out.kind = "return"
                                         THEN ReturnedProperties(<<out.obj>>)
                                         ELSE Raised(out.exc)])

NextProperties == ParseProperty

SpecProperties == InitProperties /\ [][NextProperties]_vars

\* ---- reads and writes of the memories ----

\* The memory ids of the calls: internal memory, ids of one byte, larger ids.
MemIds == {0, 1, 255, 256}

ReadMemoryIds ==
    \E length \in 0..1, mem_id \in MemIds, fast_mode \in BOOLEAN :
        read_memory(BaseAddr, length, mem_id, fast_mode)

WriteMemoryIds ==
    \E n \in 0..1, mem_id \in MemIds : write_memory(BaseAddr, Memory(BaseAddr, n), mem_id)

FlashEraseAllIds == \E mem_id \in MemIds : flash_erase_all(mem_id)

ConfigureMemoryIds == \E mem_id \in MemIds : configure_memory(BaseAddr, mem_id)

NextMemories ==
    \/ Open
    \/ ReadMemoryIds
    \/ WriteMemoryIds
    \/ FlashEraseAllIds
    \/ ConfigureMemoryIds
    \/ WriteCommand
    \/ ReadResponse
    \/ ReadData
    \/ ReadDataRetry
    \/ WriteData
    \/ ReadFinal
    \/ ReadAfterError

SpecMemories == Init /\ [][NextMemories]_vars

\* ---- the session held by a `with` statement ----

\* __enter__: the body of the statement starts with the transport open.
EnterScope ==
    /\ pc = "idle" /\ scope.state # "in"
    /\ opened' = TRUE
    /\ scope' = [state |-> "in", reopen |-> TRUE, closes |-> 0, raised |-> FALSE]
    /\ frame' = NoFrame /\ result' = NoResult /\ wire' = <<>> /\ progress' = <<>>
    /\ UNCHANGED <<is_usb, need_data_split, cmd_exception, status_code,
                   max_packet_size, pc, cmd_packet, dev,
                   queried, available_commands_lst, pause_point>>

\* __exit__ that leaves the transport as it is.
ExitScope_KeepOpen ==
    /\ pc = "idle" /\ scope.state = "in"
    /\ scope' = [scope EXCEPT !.state = "left", !.raised = (result.kind = "raise")]
    /\ UNCHANGED <<is_usb, need_data_split, cmd_exception, opened, status_code,
                   max_packet_size, pc, frame, cmd_packet, wire, progress, result, dev,
                   queried, available_commands_lst, pause_point>>

\* __exit__: the body ended, by its last operation returning or by an exception
\* (raised: the exception goes on to the caller); close is called.
ExitScope ==
    /\ pc = "idle" /\ scope.state = "in"
    /\ opened' = FALSE
    /\ scope' = [scope EXCEPT !.state = "left", !.closes = @ + 1,
                              !.raised = (result.kind = "raise")]
    /\ UNCHANGED <<is_usb, need_data_split, cmd_exception, status_code,
                   max_packet_size, pc, frame, cmd_packet, wire, progress, result, dev,
                   queried, available_commands_lst, pause_point>>

\* The body goes on with an operation unless an operation has raised.
InBody == scope.state = "in" /\ result.kind # "raise"

NextScope ==
    \/ EnterScope
    \/ ExitScope
    \/ InBody /\ FlashEraseAll
    \/ InBody /\ FillMemory
    \/ InBody /\ GetProperty
    \/ InBody /\ ReadMemoryShort
    \/ WriteCommand
    \/ ReadResponse
    \/ ReadData
    \/ ReadDataRetry

SpecScope == Init /\ [][NextScope]_vars

\* ---- the text of a status code ----

\* StatusCode: the label of each member, by tag.
StatusCode ==
    [tag \in {0, 1, 2, 3, 4, 5, 6, 100} |->
        CASE tag = 0 -> SUCCESS
          [] tag = 1 -> FAIL
          [] tag = 2 -> "ReadOnly"
          [] tag = 3 -> "OutOfRange"
          [] tag = 4 -> "InvalidArgument"
          [] tag = 5 -> "Timeout"
          [] tag = 6 -> "NoTransferInProgress"
          [] tag = 100 -> "FlashSizeError"]

HexDigits == <<"0", "1", "2", "3", "4", "5", "6", "7", "8", "9",
               "A", "B", "C", "D", "E", "F">>

\* f"{value:0{width}X}": the hexadecimal digits of value in upper case, padded
\* with zeros on the left to `width` digits.
RECURSIVE Hex(_, _)
Hex(value, width) ==
    IF value < 16 /\ width <= 1
    THEN <<HexDigits[value + 1]>>
    ELSE Append(Hex(value \div 16, width - 1), HexDigits[(value % 16) + 1])

\* The outcome of a rendering: a text, or an exception.
Rendered(text) == [kind |-> "return", text |-> text, exc |-> NoException]

RenderRaised(exc) == [kind |-> "raise", text |-> <<>>, exc |-> exc]

\* SpsdkEnum.get_label(tag) of StatusCode.
get_label(tag) ==
    IF tag \in DOMAIN StatusCode THEN Rendered(<<StatusCode[tag]>>)
    ELSE RenderRaised(SPSDKKeyError)

\* status_info that takes the label of every code.
status_info_AlwaysLabel(code) == get_label(code)

\* status_info of _read_data and _send_data: the label of a known code, the
\* hexadecimal value of any other.
status_info(code) ==
    IF code \in DOMAIN StatusCode THEN get_label(code)
    ELSE Rendered(<<"0x">> \o Hex(code, 8))

InitStatus ==
    /\ is_usb = FALSE
    /\ need_data_split = FALSE
    /\ cmd_exception = FALSE
    /\ opened = FALSE
    /\ status_code = SUCCESS
    /\ max_packet_size = <<>>
    /\ pc = "idle"
    /\ \E code \in 0..MaxStatus : frame = [NoFrame EXCEPT !.code = code]
    /\ cmd_packet = NoPacket
    /\ wire = <<>>
    /\ progress = <<>>
    /\ result = NoResult
    /\ dev = NoDevice
    /\ queried = {}
    /\ available_commands_lst = <<>>
    /\ pause_point = <<>>
    /\ scope = NoScope

\* The status code drawn is rendered.
RenderStatus ==
    /\ pc = "idle" /\ frame.op = "none"
    /\ LET out == status_info(frame.code)
       IN  Become([Cur EXCEPT !.frame.op = "status_info",
                              !.result = IF out.kind = "return"
                                         THEN ReturnedText(out.text)
                                         ELSE Raised(out.exc)])

NextStatus == RenderStatus

SpecStatus == InitStatus /\ [][NextStatus]_vars

\* ---- the SDPS command packet ----

\* CommandFlag and CommandTag of the SDPS protocol: label of each member, by tag.
CommandFlag == [tag \in {128, 0} |-> IF tag = 128 THEN "DataOut" ELSE "DataIn"]

CommandTag == [tag \in {2} |-> "FwDownload"]

\* CmdPacket.FORMAT, "<3IB2xbI11x", one entry per byte group: I is an unsigned
\* 32-bit word, B an unsigned byte, b a signed byte, x a pad byte.
FORMAT == <<"I", "I", "I", "B", "x", "x", "b", "I",
            "x", "x", "x", "x", "x", "x", "x", "x", "x", "x", "x">>

\* struct.calcsize(FORMAT).
PACKET_SIZE == 31

\* CmdPacket.__init__(signature, length, flags, command, tag).
SdpsCmdPacket(signature, length, flags, command, tag) ==
    [signature |-> signature, tag |-> tag, length |-> length,
     flags |-> flags, cdb_command |-> command]

\* The little-endian bytes of an unsigned value, `width` of them.
RECURSIVE LittleEndian(_, _)
LittleEndian(value, width) ==
    IF width = 0 THEN <<>>
    ELSE <<value % 256>> \o LittleEndian(value \div 256, width - 1)

\* The value of little-endian bytes.
RECURSIVE FromLittleEndian(_)
FromLittleEndian(bytes) ==
    IF bytes = <<>> THEN 0
    ELSE bytes[1] + 256 * FromLittleEndian(Tail(bytes))

Reversed(seq) == [i \in 1..Len(seq) |-> seq[Len(seq) + 1 - i]]

\* Whether struct.pack accepts the value for the format character.
Fits(char, value) ==
    CASE char = "I" -> value >= 0 /\ value \div 65536 < 65536
      [] char = "B" -> value \in 0..255
      [] char = "b" -> value \in -128..127
      [] OTHER -> FALSE

\* The bytes struct.pack gives one value.
Packed(char, value) ==
    CASE char = "I" -> LittleEndian(value, 4)
      [] char = "B" -> <<value>>
      [] char = "b" -> <<value % 256>>
      [] OTHER -> <<>>

\* struct.pack(format, *args) in little-endian standard layout: the bytes, or
\* struct.error when a value does not fit its field.
RECURSIVE pack(_, _)
pack(format, args) ==
    IF format = <<>> THEN [ok |-> TRUE, bytes |-> <<>>]
    ELSE IF format[1] = "x"
    THEN LET rest == pack(Tail(format), args)
         IN  [ok |-> rest.ok, bytes |-> IF rest.ok THEN <<0>> \o rest.bytes ELSE <<>>]
    ELSE IF ~Fits(format[1], args[1]) THEN [ok |-> FALSE, bytes |-> <<>>]
    ELSE LET rest == pack(Tail(format), Tail(args))
         IN  [ok |-> rest.ok,
              bytes |-> IF rest.ok THEN Packed(format[1], args[1]) \o rest.bytes
                        ELSE <<>>]

\* swap32(x): the value with its four bytes in the opposite order.
swap32(x) == FromLittleEndian(Reversed(LittleEndian(x, 4)))

RECURSIVE Trimmed(_)
Trimmed(bytes) ==
    IF bytes # <<>> /\ bytes[Len(bytes)] = 0
    THEN Trimmed(SubSeq(bytes, 1, Len(bytes) - 1))
    ELSE bytes

StructError == Exception("struct.error", "", None)

SPSDKError == Exception("SPSDKError", "", None)

\* to_bytes that leaves the trailing zero bytes out.
to_bytes_Trimmed(packet) ==
    IF packet.length < 0 \/ packet.length \div 65536 >= 65536
    THEN Raised(SPSDKError)
    ELSE LET out == pack(FORMAT, <<packet.signature, packet.tag, packet.length,
                                   packet.flags, packet.cdb_command,
                                   swap32(packet.length)>>)
         IN  IF out.ok THEN ReturnedBytes(Trimmed(out.bytes)) ELSE Raised(StructError)

\* CmdPacket.to_bytes: the arguments are evaluated first, so swap32 raises for
\* a length outside 32 bits before pack is called.
to_bytes(packet) ==
    IF packet.length < 0 \/ packet.length \div 65536 >= 65536
    THEN Raised(SPSDKError)
    ELSE LET out == pack(FORMAT, <<packet.signature, packet.tag, packet.length,
                                   packet.flags, packet.cdb_command,
                                   swap32(packet.length)>>)
         IN  IF out.ok THEN ReturnedBytes(out.bytes) ELSE Raised(StructError)

\* Values of the 32-bit fields: the ends of the range, values with one byte
\* set, a value with four different bytes, and a value that fits no field.
PacketWords == {-1, 0, 1, 127, 256, 16909060}

InitPacket ==
    /\ is_usb = FALSE
    /\ need_data_split = FALSE
    /\ cmd_exception = FALSE
    /\ opened = FALSE
    /\ status_code = SUCCESS
    /\ max_packet_size = <<>>
    /\ pc = "idle"
    /\ frame = NoFrame
    /\ \E signature \in PacketWords, length \in PacketWords, tag \in PacketWords,
          flags \in DOMAIN CommandFlag, command \in DOMAIN CommandTag :
            cmd_packet = SdpsCmdPacket(signature, length, flags, command, tag)
    /\ wire = <<>>
    /\ progress = <<>>
    /\ result = NoResult
    /\ dev = NoDevice
    /\ queried = {}
    /\ available_commands_lst = <<>>
    /\ pause_point = <<>>
    /\ scope = NoScope

\* The packet drawn is serialized.
Serialize ==
    /\ pc = "idle" /\ frame.op = "none"
    /\ Become([Cur EXCEPT !.frame.op = "to_bytes", !.result = to_bytes(cmd_packet)])

NextPacket == Serialize

SpecPacket == InitPacket /\ [][NextPacket]_vars

\* ---- the version properties ----

Digits == <<"0", "1", "2", "3", "4", "5", "6", "7", "8", "9">>

\* f"{value}": the decimal digits of a value that is not negative.
RECURSIVE Decimal(_)
Decimal(value) ==
    IF value < 10 THEN <<Digits[value + 1]>>
    ELSE Append(Decimal(value \div 10), Digits[(value % 10) + 1])

Uppercase == <<"A", "B", "C", "D", "E", "F", "G", "H", "I", "J", "K", "L", "M",
               "N", "O", "P", "Q", "R", "S", "T", "U", "V", "W", "X", "Y", "Z">>

\* chr(code) for the codes from_int keeps.
Chr(code) == Uppercase[code - 64]

\* Version.to_str() of the version whose fields are `fields`.
VersionToStr(fields) ==
    LET marked == Len(fields) = 4
        mark == IF marked THEN <<Chr(fields[1])>> ELSE <<>>
        rest == IF marked THEN Tail(fields) ELSE fields
    IN  mark \o Decimal(rest[1]) \o <<".">> \o Decimal(rest[2])
             \o <<".">> \o Decimal(rest[3])

\* The bytes of the raw words: the ends of the range of a byte, a value in
\* between, and for the mark the codes around the upper case letters.
MarkBytes == {0, 64, 65, 75, 90, 91, 127}

FieldBytes == {0, 3, 255}

VersionWords ==
    {((mark * 256 + major) * 256 + minor) * 256 + fixation :
        mark \in MarkBytes, major \in FieldBytes, minor \in {0, 10},
        fixation \in FieldBytes}

VersionTags == {tag \in DOMAIN PROPERTIES : PROPERTIES[tag].class = "VersionValue"}

InitVersion ==
    /\ is_usb = FALSE
    /\ need_data_split = FALSE
    /\ cmd_exception = FALSE
    /\ opened = FALSE
    /\ status_code = SUCCESS
    /\ max_packet_size = <<>>
    /\ pc = "idle"
    /\ \E tag \in VersionTags, word \in VersionWords,
          more \in {<<>>, <<0>>, <<1258357515>>} :
           frame = [NoFrame EXCEPT !.prop_tag = tag, !.raw_values = <<word>> \o more]
    /\ cmd_packet = NoPacket
    /\ wire = <<>>
    /\ progress = <<>>
    /\ result = NoResult
    /\ dev = NoDevice
    /\ queried = {}
    /\ available_commands_lst = <<>>
    /\ pause_point = <<>>
    /\ scope = NoScope

\* VersionValue(tag, raw_values).to_str(): the object is kept in the frame, the
\* text is the result.
DecodeVersion ==
    /\ pc = "idle" /\ frame.op = "none"
    /\ LET obj == PropertyValue("VersionValue", frame.prop_tag, frame.raw_values,
                                NoKwargs)
       IN  Become([Cur EXCEPT !.frame.op = "to_str",
                              !.frame.property_list = <<obj>>,
                              !.result = ReturnedText(VersionToStr(obj.value))])

NextVersion == DecodeVersion

SpecVersion == InitVersion /\ [][NextVersion]_vars

(* --------------------------- fuse lock status -------------------------- *)
\* value >> shift
RECURSIVE ShiftRight(_, _)
ShiftRight(value, shift) ==
    IF shift = 0 THEN value ELSE ShiftRight(value \div 2, shift - 1)

\* FuseLock(index, locked)
FuseLock(index, locked) == [index |-> index, locked |-> locked]

\* FuseLockRegister whose shift begins at `start`.
FuseLockRegister_ShiftFromStart(value, index, start) ==
    [n \in 1..(32 - start) |->
        FuseLock(index + start + (n - 1), ShiftRight(value, start + (n - 1)) % 2 = 1)]

\* FuseLockRegister(value, index, start).bitfields: the loop runs once for each
\* member of range(start, 32), with shift = 0, 1, 2, ...
FuseLockRegister(value, index, start) ==
    [n \in 1..(32 - start) |->
        FuseLock(index + (n - 1), ShiftRight(value, n - 1) % 2 = 1)]

\* The loop of FuseLockedStatus.__init__ from the word at position count on:
\* the registers appended to self.fuses.
RECURSIVE FuseRegisters(_, _, _)
FuseRegisters(raw_values, count, idx) ==
    IF count >= Len(raw_values)
    THEN <<>>
    ELSE LET start == IF count = 0 THEN 16 ELSE 0
             next == IF count = 0 THEN (idx + 32) - 16 ELSE idx + 32
         IN  <<FuseLockRegister(raw_values[count + 1], idx, start)>>
             \o FuseRegisters(raw_values, count + 1, next)

\* FuseLockedStatus(tag, raw_values).fuses
FuseLockedStatus(raw_values) == FuseRegisters(raw_values, 0, 0)

\* FuseLockedStatus.get_fuses
RECURSIVE get_fuses(_)
get_fuses(fuses) ==
    IF fuses = <<>> THEN <<>> ELSE fuses[1] \o get_fuses(Tail(fuses))

\* Raw words of the property: no bit, one bit at either end of each half, the
\* lower half, and every bit that an integer of the model holds.
FuseWords == {0, 1, 32768, 65535, 65536, 1073741824, 2147483647}

RECURSIVE FuseWordLists(_)
FuseWordLists(n) ==
    IF n = 0 THEN {<<>>}
    ELSE FuseWordLists(n - 1)
         \cup {Append(l, w) : l \in {m \in FuseWordLists(n - 1) : Len(m) = n - 1},
                              w \in FuseWords}

InitFuse ==
    /\ is_usb = FALSE
    /\ need_data_split = FALSE
    /\ cmd_exception = FALSE
    /\ opened = FALSE
    /\ status_code = SUCCESS
    /\ max_packet_size = <<>>
    /\ pc = "idle"
    /\ \E raw_values \in FuseWordLists(MaxWords) :
           frame = [NoFrame EXCEPT !.prop_tag = 31, !.raw_values = raw_values]
    /\ cmd_packet = NoPacket
    /\ wire = <<>>
    /\ progress = <<>>
    /\ result = NoResult
    /\ dev = NoDevice
    /\ queried = {}
    /\ available_commands_lst = <<>>
    /\ pause_point = <<>>
    /\ scope = NoScope

\* FuseLockedStatus(tag, raw_values).get_fuses(): the registers are kept in the
\* frame, the list of fuses is the result.
DecodeFuses ==
    /\ pc = "idle" /\ frame.op = "none"
    /\ LET fuses == FuseLockedStatus(frame.raw_values)
       IN  Become([Cur EXCEPT !.frame.op = "get_fuses",
                              !.frame.property_list = fuses,
                              !.result = Result("return", "fuses", <<>>, get_fuses(fuses),
                                                FALSE, NoException)])

NextFuse == DecodeFuses

SpecFuse == InitFuse /\ [][NextFuse]_vars

(* ======================= the claims, as formulas ======================= *)
\* An operation was entered and has ended.
Ended(op) == pc = "idle" /\ frame.op = op

EndedAny == pc = "idle" /\ frame.op # "none"

\* The data of the calls `name` of w that ended with `outcome`, concatenated.
RECURSIVE DataOf(_, _, _)
DataOf(w, name, outcome) ==
    IF w = <<>> THEN <<>>
    ELSE (IF Head(w).call = name /\ Head(w).outcome = outcome THEN Head(w).data ELSE <<>>)
         \o DataOf(Tail(w), name, outcome)

\* The bytes the transport delivered to the reads of the running operation.
Delivered == DataOf(wire, "read", "bytes")

\* The bytes passed to the write_data calls that returned.
Written == DataOf(wire, "write_data", "ok")

\* C1 as stated: every operation invoked while the transport is not open fails
\* with McuBootConnectionError, and no call is made on the transport.
C1_ClosedAlwaysFails ==
    (EndedAny /\ ~frame.was_opened) =>
        /\ result.kind = "raise"
        /\ result.exc.class = "McuBootConnectionError"
        /\ wire = <<>>

\* The last call made on the transport.
LastCall(w) == w[Len(w)]

\* A step in which _process_cmd obtains the response to its command: the read
\* of the response returns, or the send or the read times out.
CommandAnswered ==
    \/ pc = "read_response"
    \/ pc = "write_command" /\ LastCall(wire').outcome = "timeout"

\* A step in which the transport times out inside _process_cmd.
CommandTimedOut ==
    /\ pc \in {"write_command", "read_response"}
    /\ LastCall(wire').outcome = "timeout"

\* The response _process_cmd obtains in such a step.
Obtained ==
    IF LastCall(wire').outcome = "timeout"
    THEN NoResponse(cmd_packet.tag)
    ELSE LastCall(wire').response

C3_StatusIsResponseStatus ==
    [][CommandAnswered =>
        /\ frame'.exit.how \in {"return", "raise"}
        /\ frame'.exit.status_code = Obtained.status
        /\ frame'.response = Obtained]_vars

\* _process_cmd raised for a FAIL response when the status was SUCCESS before.
C3_Witness ==
    /\ frame.exit.how = "raise" /\ frame.exit.status_code = FAIL
    /\ Len(wire) = 2 /\ LastCall(wire).response.status = FAIL

\* C4: _process_cmd raises McuBootCommandError, naming the command and the
\* status, exactly when raise-on-error is on and the response's status is not
\* SUCCESS; otherwise it returns the response.
C4_RaisesIffEnabledAndFailed ==
    [][CommandAnswered =>
        /\ frame'.exit.how = "raise" <=> (cmd_exception /\ Obtained.status # SUCCESS)
        /\ frame'.exit.how = "return" <=> ~(cmd_exception /\ Obtained.status # SUCCESS)
        /\ frame'.exit.how = "raise" =>
              frame'.exit.exc = McuBootCommandError(cmd_packet.tag, Obtained.status)
        /\ frame'.exit.how = "return" => frame'.exit.exc = NoException]_vars

\* _process_cmd returned a FAIL response, raise-on-error being off.
C4_Witness ==
    /\ ~cmd_exception /\ frame.exit.how = "return"
    /\ wire # <<>> /\ LastCall(wire).outcome = "response"
    /\ LastCall(wire).response.status = FAIL /\ frame.response.status = FAIL

\* The transport was open as the running read_memory was entered, and the
\* operation has ended.
ReadEnded == Ended("read_memory") /\ frame.was_opened

\* No anomaly of the transport or the device in the running operation.
WellBehaved == dev.faults = 0

\* Every response read in the running operation has the SUCCESS status.
AllSucceeded ==
    \A i \in 1..Len(wire) :
        wire[i].outcome = "response" => wire[i].response.status = SUCCESS

\* C5: when the transport delivers the requested bytes in pieces and every
\* command succeeds, read_memory returns exactly the requested bytes in address
\* order, and the last invocation of the progress callback reports all of them.
C5_ChunkedReadReassembles ==
    (ReadEnded /\ WellBehaved /\ AllSucceeded) =>
        /\ Delivered = Memory(frame.address, frame.length)
        /\ result = ReturnedBytes(Memory(frame.address, frame.length))
        /\ frame.length > 0 =>
              /\ progress # <<>>
              /\ progress[Len(progress)] = <<frame.length, frame.length>>

\* A read of MaxLen bytes on the single-command path that the device delivered
\* in more than one piece has returned.
C5_Witness ==
    /\ ReadEnded /\ WellBehaved /\ AllSucceeded
    /\ ~frame.split /\ frame.length = MaxLen
    /\ Len(progress) > 1
    /\ result.kind = "return"

\* The running operation ended at a timeout of a read of the data phase: the
\* last call on the transport is a read that timed out, and the call before it
\* is a read too (the read of a command's response follows a write_command).
DataPhaseTimeout ==
    /\ Len(wire) >= 2
    /\ LastCall(wire).call = "read" /\ LastCall(wire).outcome = "timeout"
    /\ wire[Len(wire) - 1].call = "read"

\* The same, the read being the first attempt of the loop of _read_data and not
\* the second attempt that follows an aborted read.
FirstAttemptTimeout == DataPhaseTimeout /\ wire[Len(wire) - 1].outcome # "abort"

RECURSIVE WriteDataArguments(_)
WriteDataArguments(w) ==
    IF w = <<>> THEN <<>>
    ELSE (IF Head(w).call = "write_data" THEN Head(w).data ELSE <<>>)
         \o WriteDataArguments(Tail(w))

\* The WRITE_MEMORY command of the running write_memory was answered SUCCESS.
WriteAccepted ==
    \E i \in 2..Len(wire) :
        /\ wire[i - 1].call = "write_command"
        /\ wire[i - 1].packet.tag = WRITE_MEMORY
        /\ wire[i].outcome = "response" /\ wire[i].response.status = SUCCESS

\* No call on the transport raised in the running operation.
NoTransportError ==
    \A i \in 1..Len(wire) : wire[i].outcome \notin {"timeout", "abort"}

\* C7: for a write_memory whose command is accepted and whose transport raises
\* no error, the arguments of the write_data calls, concatenated, are the
\* payload: every byte once, in order, whatever the packet size and whether or
\* not the transport needs the data split.
C7_ChunkedWriteDeliversPayload ==
    (Ended("write_memory") /\ WriteAccepted /\ NoTransportError) =>
        /\ WriteDataArguments(wire) = frame.payload
        /\ Written = frame.payload
        /\ progress # <<>> =>
              progress[Len(progress)] = <<Len(frame.payload), Len(frame.payload)>>

\* A payload of MaxLen bytes was written in more than one chunk.
C7_Witness ==
    /\ Ended("write_memory") /\ WriteAccepted /\ NoTransportError
    /\ need_data_split /\ Len(frame.payload) = MaxLen
    /\ Len(frame.data_chunks) > 1
    /\ Written = frame.payload

\* The positions in wire of the READ_MEMORY commands written.
ReadCommandAt ==
    {i \in 1..Len(wire) :
        wire[i].call = "write_command" /\ wire[i].packet.tag = READ_MEMORY}

\* The first position after p at which a READ_MEMORY command was written, or
\* the position after the last call.
NextCommandAfter(p) ==
    LET later == {q \in ReadCommandAt : q > p}
    IN  IF later = {} THEN Len(wire) + 1
        ELSE CHOOSE q \in later : \A r \in later : q <= r

\* The number of READ_MEMORY commands written before position p.
SubReadIndex(p) == Cardinality({q \in ReadCommandAt : q < p})

\* ceil(a / b)
CeilDiv(a, b) == (a + b - 1) \div b

\* Every sub-read of the running read succeeded: no call on the transport timed
\* out from the first READ_MEMORY command on, and every response that echoes
\* READ_MEMORY has the SUCCESS status.
SubReadsSucceeded ==
    \A i \in 1..Len(wire) :
        /\ (wire[i].outcome = "timeout") => \A p \in ReadCommandAt : i < p
        /\ (wire[i].outcome = "response" /\ wire[i].response.cmd_tag = READ_MEMORY)
              => wire[i].response.status = SUCCESS

\* C8: a read_memory of `length` bytes on a USB transport with fast mode off,
\* every sub-read of which succeeds, writes exactly ceil(length /
\* max_packet_size) READ_MEMORY commands; sub-read i (from 0) asks for address +
\* i * max_packet_size, for max_packet_size bytes except possibly the last, the
\* lengths adding up to `length`; and each command is followed by the read of its
\* response and the reads of its data phase before the next command is written.
C8_SplitReadCommands ==
    (ReadEnded /\ frame.split /\ result.kind = "return" /\ SubReadsSucceeded) =>
        LET size == max_packet_size[1]
            count == CeilDiv(frame.length, size)
        IN  /\ Cardinality(ReadCommandAt) = count
            /\ \A p \in ReadCommandAt :
                  LET i == SubReadIndex(p)
                      q == NextCommandAfter(p)
                  IN  /\ wire[p].packet.flags = FLAG_NONE
                      /\ wire[p].packet.params =
                            <<frame.address + i * size,
                              IF i < count - 1 THEN size ELSE frame.length - i * size,
                              ClampDownMemoryId(frame.mem_id)>>
                      /\ wire[p].packet.params[2] \in 1..size
                      /\ q >= p + 3
                      /\ wire[p + 1].call = "read"
                      /\ wire[p + 1].response.class = "ReadMemoryResponse"
                      /\ \A k \in (p + 2)..(q - 1) : wire[k].call = "read"
                      /\ wire[q - 1].outcome = "response"
                      /\ wire[q - 1].response.cmd_tag = READ_MEMORY

\* A split read of MaxLen bytes in more than one sub-read, the last shorter than
\* the others, has returned all the bytes.
C8_Witness ==
    /\ ReadEnded /\ frame.split /\ SubReadsSucceeded
    /\ frame.length = MaxLen /\ max_packet_size = <<MaxPacket>>
    /\ Cardinality(ReadCommandAt) = CeilDiv(MaxLen, MaxPacket)
    /\ result = ReturnedBytes(Memory(frame.address, MaxLen))

\* C9 as stated: in a split read, if sub-read j fails after earlier sub-reads
\* delivered bytes, read_memory returns the bytes accumulated from the earlier
\* sub-reads; a sub-read whose command is answered with a failure status adds no
\* data of its own.  (Raise-on-error is off, so that read_memory returns.)
C9_FailedSubReadKeepsEarlierData ==
    (/\ ReadEnded /\ frame.split /\ ~cmd_exception
     /\ frame.idx >= 1 /\ frame.data # <<>>
     /\ cmd_packet.tag = READ_MEMORY /\ frame.exit.how = "return"
     /\ frame.response.status # SUCCESS) =>
        result = ReturnedBytes(frame.data)

\* C10 as stated: read_memory never returns more bytes than the caller asked
\* for, on the split path and on the single-command path.
C10_NeverMoreThanRequested ==
    (ReadEnded /\ result.type = "bytes") => Len(result.value) <= frame.length

\* The length field of the response to the last READ_MEMORY command.
ReportedLength ==
    LET p == CHOOSE q \in ReadCommandAt : \A r \in ReadCommandAt : r <= q
    IN  wire[p + 1].response.length

\* C10, amended: read_memory never returns more bytes than were delivered; on
\* the split path it never returns more than the caller asked for; on the
\* single-command path it returns the first bytes delivered, never more than
\* the length the device reported in its response to READ_MEMORY.
C10_NeverMoreThanExpected ==
    (ReadEnded /\ result.type = "bytes") =>
        /\ Len(result.value) <= Len(Delivered)
        /\ frame.split => Len(result.value) <= frame.length
        /\ ~frame.split =>
              /\ Len(result.value) <= ReportedLength
              /\ result.value = Slice(Delivered, 0, Len(result.value))

\* The device delivered more bytes than the sub-read asked for, and the split
\* read returned as many bytes as the caller asked for.
C10_Witness ==
    /\ ReadEnded /\ frame.split /\ result.type = "bytes"
    /\ Len(Delivered) > frame.length
    /\ Len(result.value) = frame.length /\ frame.length > 0

\* The running write_memory ended at a timeout of a call of its data cycle: the
\* WRITE_MEMORY command was accepted, and the last call on the transport, a
\* write_data or the read of the terminal response, timed out.
WriteCycleTimeout ==
    /\ Ended("write_memory") /\ WriteAccepted
    /\ LastCall(wire).outcome = "timeout"
    /\ LastCall(wire).call \in {"write_data", "read"}

\* C11 as stated: any transport timeout in the data cycle of a write, while a
\* chunk is written or while the terminal response is read, makes write_memory
\* fail with McuBootConnectionError with the session's status NO_RESPONSE,
\* whatever the raise-on-error setting.
C11_WriteTimeoutIsConnectionError ==
    WriteCycleTimeout =>
        /\ result = Raised(McuBootConnectionError)
        /\ status_code = NO_RESPONSE

\* A write_data call of the running write_memory was aborted by the transport,
\* and the operation has ended.
WriteAborted ==
    /\ Ended("write_memory")
    /\ \E i \in 1..Len(wire) : wire[i].call = "write_data" /\ wire[i].outcome = "abort"

AbortRecurred ==
    /\ ReadEnded /\ Len(wire) >= 2
    /\ LastCall(wire).call = "read" /\ LastCall(wire).outcome = "abort"
    /\ wire[Len(wire) - 1].call = "read" /\ wire[Len(wire) - 1].outcome = "abort"

\* C13 as stated: in the read data phase an abort signalled by the transport is
\* retried once; if the abort recurs on the retry, the read fails like a
\* timeout (the status NO_RESPONSE is recorded and, raise-on-error being off,
\* the bytes accumulated so far are returned), and no transport exception
\* escapes.
C13_RecurringAbortIsTimeoutClass ==
    AbortRecurred =>
        /\ status_code = NO_RESPONSE
        /\ result.exc.class \notin {McuBootDataAbortError.class, TransportTimeout.class}
        /\ ~cmd_exception => result.type = "bytes"

\* C14 as stated: over any sequence of read_memory and write_memory calls on
\* one session, across close and reopen, GET_PROPERTY(MAX_PACKET_SIZE) is sent
\* by _get_max_packet_size at most once, and once a packet size has been
\* determined every later chunking decision uses that same value.
C14_PacketSizeNegotiatedOnce ==
    [][/\ (pc = "write_command" /\ frame.stage = "max_packet_size") => MAX_PACKET_SIZE \notin queried
       /\ max_packet_size # <<>> =>
             /\ max_packet_size' = max_packet_size
             /\ (frame'.op = "read_memory" /\ frame'.split /\ frame'.packets > 0)
                   => frame'.payload_size = max_packet_size[1]
             /\ (frame'.op = "write_memory" /\ need_data_split
                                            /\ frame'.data_chunks # <<>>)
                   => frame'.data_chunks = Chunks(frame'.payload, max_packet_size[1])]_vars

\* C15 (as claimed): over the accesses to available_commands of one session,
\* GET_PROPERTY(AVAILABLE_COMMANDS) is sent to the device at most once: an
\* access never sends the query when an earlier access has sent it.
C15_AvailableCommandsQueriedOnce ==
    (pc = "write_command" /\ frame.op = "available_commands")
        => AVAILABLE_COMMANDS \notin queried

\* C15 (amended): an access to available_commands that finds a non-empty cached
\* list is answered with that list without touching the transport and leaves
\* the list as it is; an access on an open session that finds the list empty
\* sends GET_PROPERTY(AVAILABLE_COMMANDS), whether or not the query was sent
\* before.
C15_NonEmptyListAnsweredFromCache ==
    /\ (frame.op = "available_commands" /\ frame.cached # <<>>) =>
          /\ pc = "idle"
          /\ wire = <<>>
          /\ result = ReturnedWords(frame.cached)
          /\ available_commands_lst = frame.cached
    /\ (Ended("available_commands") /\ frame.cached = <<>> /\ frame.was_opened) =>
          /\ wire # <<>>
          /\ wire[1].call = "write_command"
          /\ wire[1].packet = CmdPacket(GET_PROPERTY, FLAG_NONE, <<AVAILABLE_COMMANDS, 0>>)

\* An access after the query had been answered with the commands 1 and 3 was
\* answered from the cached list, with no transport call.
C15_Witness ==
    /\ Ended("available_commands")
    /\ AVAILABLE_COMMANDS \in queried
    /\ frame.cached = <<1, 3>>
    /\ wire = <<>>
    /\ result = ReturnedWords(<<1, 3>>)

IsWriteCommand(c) == c.call = "write_command"

\* The commands sent by the running operation, in order.
CommandsSent == SelectSeq(wire, IsWriteCommand)

\* The call is a read that gave a response of status SUCCESS carrying words.
GaveWords(r) ==
    /\ r.call = "read" /\ r.outcome = "response"
    /\ r.response.status = SUCCESS /\ Len(r.response.values) > 0

\* The decoded values of the queries among the calls k.. of the wire whose read
\* (the call that follows the query) gave words, in the order of the queries.
RECURSIVE DecodedFrom(_)
DecodedFrom(k) ==
    IF k >= Len(wire)
    THEN <<>>
    ELSE (IF IsWriteCommand(wire[k]) /\ GaveWords(wire[k + 1])
          THEN <<ParsePropertyValue(wire[k].packet.params[1],
                                    wire[k + 1].response.values)>>
          ELSE <<>>) \o DecodedFrom(k + 1)

\* Every response of status SUCCESS that the operation read is a get-property
\* response.
GetPropertyAnswersTyped ==
    \A i \in 1..Len(wire) :
        (wire[i].call = "read" /\ wire[i].outcome = "response"
                               /\ wire[i].response.status = SUCCESS)
            => wire[i].response.class = "GetPropertyResponse"

PropertyListEnded ==
    Ended("get_property_list") /\ frame.was_opened /\ GetPropertyAnswersTyped

\* C16: a get_property_list on an open session whose queries are answered with
\* get-property responses sends exactly one GET_PROPERTY per member of
\* PropertyTag, in the order of the enumeration; the tags that were rejected,
\* not answered or answered with no words are skipped, and the list holds the
\* decoded value of each remaining tag in the same order; the call raises only
\* when that list is empty.
C16_OneQueryPerTagInOrder ==
    PropertyListEnded =>
        LET decoded == DecodedFrom(1)
        IN  /\ Len(CommandsSent) = Len(PropertyTags)
            /\ \A i \in 1..Len(PropertyTags) :
                   CommandsSent[i].packet
                       = CmdPacket(GET_PROPERTY, FLAG_NONE, <<PropertyTags[i], 0>>)
            /\ frame.property_list = decoded
            /\ result.kind = "return" => result = ReturnedProperties(decoded)
            /\ result.kind = "raise" => decoded = <<>>

\* The first tag was answered SUCCESS with no words and the last tag with
\* words: the list returned holds the value of the last tag only.
C16_Witness ==
    /\ PropertyListEnded
    /\ wire[2].call = "read" /\ wire[2].outcome = "response"
    /\ wire[2].response.status = SUCCESS /\ wire[2].response.values = <<>>
    /\ \E v \in PropertyWords(PropertyTags[Len(PropertyTags)]) :
           result = ReturnedProperties(
                        <<ParsePropertyValue(PropertyTags[Len(PropertyTags)], v)>>)

\* C17: a get_property_list on an open session that retrieved no property sets
\* the status to FAIL; it raises McuBootCommandError("GetPropertyList", FAIL)
\* when cmd_exception is set and returns the empty list when it is not.
C17_EmptyListIsFailure ==
    (PropertyListEnded /\ DecodedFrom(1) = <<>>) =>
        /\ status_code = FAIL
        /\ result = IF cmd_exception
                    THEN Raised(McuBootCommandError("GetPropertyList", FAIL))
                    ELSE ReturnedProperties(<<>>)

\* With cmd_exception set, every tag was queried, none gave a value, and the
\* call raised the command error of GetPropertyList.
C17_Witness ==
    /\ PropertyListEnded /\ cmd_exception
    /\ Len(CommandsSent) = Len(PropertyTags)
    /\ DecodedFrom(1) = <<>>
    /\ status_code = FAIL
    /\ result = Raised(McuBootCommandError("GetPropertyList", FAIL))

\* parse_property_value was applied to the arguments of the frame.
ParseEnded == frame.op = "parse_property_value"

\* The series whose table overrides the properties of the family of the frame,
\* "" for no family and for a family without override.
SeriesOfFrame ==
    IF frame.family = NoFamily THEN "" ELSE OverriddenProperties(frame.family)

\* The active dispatch table: the base table updated with the overrides of the
\* family of the frame.
ActiveTable ==
    IF SeriesOfFrame = "" THEN PROPERTIES
    ELSE Updated(PROPERTIES, PROPERTIES_OVERRIDE[SeriesOfFrame])

\* The tags that some override table remaps.
RemappedTags ==
    DOMAIN PROPERTIES_KW45XX \cup DOMAIN PROPERTIES_KW47XX \cup DOMAIN PROPERTIES_MCXA1XX

\* C18: under a family whose lookup names an override table, a tag of that
\* table decodes to the class and kwargs of the override entry, named and
\* described by the family's enumeration of tags, with the value taken from
\* the same raw words; a remapped tag decoded with no family has the class and
\* kwargs of the base table and the label and description of PropertyTag.
C18_OverrideDecodesWithFamilyNames ==
    ParseEnded =>
        LET tag == frame.prop_tag
            raw == frame.raw_values
        IN  /\ (/\ SeriesOfFrame # ""
                /\ tag \in DOMAIN PROPERTIES_OVERRIDE[SeriesOfFrame]
                /\ Len(raw) > 0) =>
                  LET entry == PROPERTIES_OVERRIDE[SeriesOfFrame][tag]
                      member == PROPERTY_TAG_OVERRIDE[SeriesOfFrame][tag]
                  IN  result = ReturnedProperties(
                          <<[class |-> entry.class, tag |-> tag,
                             name |-> member.label, desc |-> member.description,
                             value |-> <<raw[1]>>, kwargs |-> entry.kwargs]>>)
            /\ (frame.family = NoFamily /\ tag \in RemappedTags /\ Len(raw) > 0) =>
                  result = ReturnedProperties(
                      <<[class |-> PROPERTIES[tag].class, tag |-> tag,
                         name |-> PropertyTag[tag].label,
                         desc |-> PropertyTag[tag].description,
                         value |-> <<raw[1]>>, kwargs |-> PROPERTIES[tag].kwargs]>>)

\* Tag 0x14 with the word 1 was decoded under a family of the kw45 series: an
\* IntValue in hexadecimal named BootStatusRegister, where the base table has
\* FlashAccessSegmentSize displayed as a size.
C18_Witness ==
    /\ ParseEnded
    /\ frame.family = "kw45b41z8" /\ frame.prop_tag = 20 /\ frame.raw_values = <<1>>
    /\ result.kind = "return"
    /\ result.list[1].class = "IntValue"
    /\ result.list[1].name = "BootStatusRegister"
    /\ result.list[1].kwargs = StrFormat("hex")
    /\ PROPERTIES[20].kwargs = StrFormat("size")
    /\ PropertyTag[20].label = "FlashAccessSegmentSize"

\* C19: for every family and every tag of the active dispatch table,
\* parse_property_value on raw words that hold what the tag's class reads
\* returns a typed value and raises nothing.
C19_ActiveTagsAlwaysDecode ==
    (/\ ParseEnded
     /\ frame.prop_tag \in DOMAIN ActiveTable
     /\ Constructible(ActiveTable[frame.prop_tag].class, frame.raw_values)) =>
        /\ result.kind = "return"
        /\ result.list[1].class = ActiveTable[frame.prop_tag].class

\* C20: a tag that is no key of the active dispatch table decodes to an
\* IntListValue that holds all the raw words and displays them in hexadecimal;
\* nothing is raised.
C20_UnknownTagIsIntList ==
    (ParseEnded /\ frame.prop_tag \notin DOMAIN ActiveTable) =>
        /\ result.kind = "return"
        /\ result.list[1].class = "IntListValue"
        /\ result.list[1].value = frame.raw_values
        /\ result.list[1].kwargs = StrFormat("hex")

\* The value of a hexadecimal digit.
DigitValue(d) == CHOOSE v \in 0..15 : HexDigits[v + 1] = d

\* The number that hexadecimal digits denote.
RECURSIVE HexValue(_)
HexValue(digits) ==
    IF digits = <<>> THEN 0
    ELSE 16 * HexValue(SubSeq(digits, 1, Len(digits) - 1))
         + DigitValue(digits[Len(digits)])

\* C21: the text of a status code is always produced: the label of the member
\* for a code of StatusCode; for any other code "0x" and at least eight
\* upper-case hexadecimal digits whose value is the code; nothing is raised.
C21_StatusTextIsTotal ==
    frame.op = "status_info" =>
        /\ result.kind = "return"
        /\ result.type = "text"
        /\ IF frame.code \in DOMAIN StatusCode
           THEN result.list = <<StatusCode[frame.code]>>
           ELSE /\ result.list[1] = "0x"
                /\ Len(result.list) >= 9
                /\ \A i \in 2..Len(result.list) :
                       \E v \in 1..16 : HexDigits[v] = result.list[i]
                /\ HexValue(Tail(result.list)) = frame.code

\* The code 0x12C, no member of StatusCode, was rendered as 0x0000012C.
C21_Witness ==
    /\ frame.op = "status_info"
    /\ frame.code = 300
    /\ frame.code \notin DOMAIN StatusCode
    /\ result = ReturnedText(<<"0x", "0", "0", "0", "0", "0", "1", "2", "C">>)

IsWriteData(c) == c.call = "write_data"

\* The response that ended the command of the running operation was read and
\* has status SUCCESS.
AnsweredSuccess ==
    /\ LastCall(wire).call = "read" /\ LastCall(wire).outcome = "response"
    /\ LastCall(wire).response.status = SUCCESS

\* C22: a fill_memory on an open session sends exactly one command packet:
\* FILL_MEMORY with the flag NONE and the parameters address, length, pattern
\* in this order; it writes no data, and it returns True exactly when the
\* response read has status SUCCESS.
C22_FillMemorySingleCommand ==
    (Ended("fill_memory") /\ frame.was_opened) =>
        /\ Len(CommandsSent) = 1
        /\ wire[1].call = "write_command"
        /\ wire[1].packet = CmdPacket(FILL_MEMORY, FLAG_NONE,
                                      <<frame.address, frame.length, frame.pattern>>)
        /\ SelectSeq(wire, IsWriteData) = <<>>
        /\ Len(wire) <= 2
        /\ (result = ReturnedBool(TRUE)) <=> AnsweredSuccess
        /\ result.kind = "return" => result = ReturnedBool(AnsweredSuccess)

\* fill_memory(16, 4, 7) was answered SUCCESS and returned True.
C22_Witness ==
    /\ Ended("fill_memory") /\ frame.was_opened
    /\ wire[1].packet.params = <<BaseAddr, 4, 7>>
    /\ AnsweredSuccess
    /\ result = ReturnedBool(TRUE)

\* C23: entering the `with` statement opens the transport; the body is left,
\* after an operation that returned or one that raised, only through __exit__,
\* which calls close on the transport, and a statement that was left has called
\* close exactly once.
C23_ScopeClosesOnEveryExit ==
    [][/\ (scope.state # "in" /\ scope'.state = "in") => opened'
       /\ (scope.state = "in" /\ scope'.state # "in") =>
              /\ scope'.state = "left"
              /\ ~opened'
              /\ scope'.closes = scope.closes + 1
       /\ (scope.state = "in" /\ scope'.state = "in") => scope'.closes = scope.closes
       /\ scope'.state = "in" => opened'
       /\ scope'.state = "left" => scope'.closes = 1]_vars

\* The body was left by the McuBootCommandError of an operation, and close was
\* called once.
C23_Witness ==
    /\ scope.state = "left" /\ scope.raised
    /\ result.kind = "raise" /\ result.exc.class = "McuBootCommandError"
    /\ scope.closes = 1
    /\ ~opened

\* The call is the command of a read or a write of memory.
IsMemoryCommand(c) ==
    c.call = "write_command" /\ c.packet.tag \in {READ_MEMORY, WRITE_MEMORY}

\* C24: every READ_MEMORY and WRITE_MEMORY command that read_memory and
\* write_memory send for a memory id above 255 carries that id unchanged, and
\* for the memory id 0 carries 0.
C24_LargeAndZeroMemoryIdsPass ==
    (frame.op \in {"read_memory", "write_memory"}
     /\ (frame.mem_id > 255 \/ frame.mem_id = 0)) =>
        \A i \in 1..Len(wire) :
            IsMemoryCommand(wire[i]) => wire[i].packet.params[3] = frame.mem_id

\* A read_memory with the memory id 256 has sent READ_MEMORY with the id 256.
C24_Witness ==
    /\ frame.op = "read_memory" /\ frame.mem_id = 256
    /\ \E i \in 1..Len(wire) :
           /\ IsMemoryCommand(wire[i])
           /\ wire[i].packet.tag = READ_MEMORY
           /\ wire[i].packet.params[3] = 256

\* C25: every command packet whose fields fit their slots serializes to the
\* same number of bytes, PACKET_SIZE, and every pad byte of the layout is zero.
C25_SerializedLengthIsFixed ==
    (Ended("to_bytes") /\ result.kind = "return") =>
        /\ Len(result.value) = PACKET_SIZE
        /\ \A i \in {14, 15} \cup (21..31) : result.value[i] = 0

C25_Witness ==
    /\ Ended("to_bytes") /\ result.kind = "return"
    /\ cmd_packet.signature = 16909060 /\ cmd_packet.length = 256
    /\ cmd_packet.flags = 128
    /\ SubSeq(result.value, 1, 4) = <<4, 3, 2, 1>>
    /\ SubSeq(result.value, 17, 20) = <<0, 0, 1, 0>>

\* The READ_MEMORY command of the read that ended was answered, and the answer
\* has a status other than SUCCESS; _process_cmd returned it.
ReadCommandRefused ==
    /\ ReadEnded /\ cmd_packet.tag = READ_MEMORY
    /\ Len(wire) >= 2
    /\ IsWriteCommand(wire[Len(wire) - 1])
    /\ wire[Len(wire) - 1].packet.tag = READ_MEMORY
    /\ LastCall(wire).call = "read" /\ LastCall(wire).outcome = "response"
    /\ LastCall(wire).response.status # SUCCESS
    /\ frame.exit.how = "return"

\* C26 as stated: whenever the READ_MEMORY command is answered with a status
\* other than SUCCESS, read_memory returns None, not an empty or partial byte
\* string, on a USB transport and on any other, in fast and in non-fast mode.
C26_RefusedReadReturnsNone == ReadCommandRefused => result = ReturnedNone

\* C26 where it holds: a read that is not split into sub-reads (a transport
\* that is not USB, or fast mode) returns None when its command is refused.
C26_UnsplitRefusedReadReturnsNone ==
    (ReadCommandRefused /\ ~frame.split) => result = ReturnedNone

C26_UnsplitWitness ==
    /\ ReadCommandRefused /\ ~frame.split /\ is_usb /\ frame.fast_mode
    /\ result = ReturnedNone

\* Byte n (0 the lowest) of a word.
ByteOf(word, n) == (word \div (256 ^ n)) % 256

\* C27: the text of a CURRENT_VERSION or TARGET_VERSION value is made from the
\* first raw word only: the character of bits 31..24 when it is an upper case
\* letter (nothing otherwise), then bits 23..16, bits 15..8 and bits 7..0 in
\* decimal, separated by dots; the words after the first do not change it.
C27_VersionFromFirstWord ==
    Ended("to_str") =>
        LET word == frame.raw_values[1]
            mark == ByteOf(word, 3)
            letter == IF mark \in 65..90 THEN <<Uppercase[mark - 64]>> ELSE <<>>
        IN  /\ result.list = letter \o Decimal(ByteOf(word, 2)) \o <<".">>
                                    \o Decimal(ByteOf(word, 1)) \o <<".">>
                                    \o Decimal(ByteOf(word, 0))
            /\ frame.property_list[1].value
                   = Value("VersionValue", <<frame.raw_values[1]>>)

C27_Witness ==
    /\ Ended("to_str") /\ frame.prop_tag = 1
    /\ frame.raw_values = <<1258490623, 1258357515>>
    /\ result.list = <<"K", "3", ".", "1", "0", ".", "2", "5", "5">>

\* The last two calls on the wire w are GET_PROPERTY(tag) and a read that gave
\* a typed response of status SUCCESS.
QuerySucceeded(w, tag) ==
    /\ Len(w) >= 2
    /\ IsWriteCommand(w[Len(w) - 1])
    /\ w[Len(w) - 1].packet.tag = GET_PROPERTY
    /\ w[Len(w) - 1].packet.params[1] = tag
    /\ LastCall(w).call = "read" /\ LastCall(w).outcome = "response"
    /\ LastCall(w).response.status = SUCCESS
    /\ LastCall(w).response.class = "GetPropertyResponse"

IsDataPhaseCommand(c) ==
    IsWriteCommand(c) /\ c.packet.tag \in {READ_MEMORY, WRITE_MEMORY}

\* After the first k calls of the running operation a data phase is open: a
\* data-phase command was answered with SUCCESS, and since then no read gave a
\* response and no call timed out.
RECURSIVE PhaseOpen(_)
PhaseOpen(k) ==
    IF k < 2 THEN FALSE
    ELSE LET c == wire[k]
         IN  CASE IsWriteCommand(c) -> FALSE
               [] c.outcome = "timeout" -> FALSE
               [] c.call = "read" /\ c.outcome = "response" ->
                    /\ IsDataPhaseCommand(wire[k - 1])
                    /\ c.response.status = SUCCESS
               [] OTHER -> PhaseOpen(k - 1)

\* C29: the session sends no command packet while a data phase is open, that is
\* between the success response to WRITE_MEMORY or to the READ_MEMORY of a
\* sub-read and the end of that data phase; the query of the maximum packet size
\* is sent before the first data-phase command of the operation.
C29_NoCommandInsideDataPhase ==
    \A i \in 1..Len(wire) :
        IsWriteCommand(wire[i]) =>
            /\ ~PhaseOpen(i - 1)
            /\ (wire[i].packet.tag = GET_PROPERTY) =>
                   \A j \in 1..(i - 1) : ~IsDataPhaseCommand(wire[j])

\* A split read of two sub-reads after the query of the packet size: the second
\* READ_MEMORY follows the response that ended the first data phase.
C29_Witness ==
    /\ ReadEnded /\ frame.split /\ WellBehaved /\ Len(wire) = 10
    /\ result = ReturnedBytes(Memory(frame.address, 2))
    /\ IsWriteCommand(wire[1]) /\ wire[1].packet.tag = GET_PROPERTY
    /\ IsDataPhaseCommand(wire[3]) /\ PhaseOpen(4) /\ PhaseOpen(5) /\ ~PhaseOpen(6)
    /\ IsDataPhaseCommand(wire[7]) /\ PhaseOpen(8) /\ PhaseOpen(9) /\ ~PhaseOpen(10)

\* A step that is a whole operation rejected because the session is not open.
RejectedAsClosed ==
    /\ pc = "idle" /\ pc' = "idle" /\ ~opened /\ ~opened'
    /\ frame'.op # "none" /\ ~frame'.was_opened
    /\ result'.kind = "raise"
    /\ result'.exc.class = McuBootConnectionError.class

\* C30 as stated: an operation rejected because the session is not open leaves
\* the last status code, the cached maximum packet size, the cached list of
\* available commands and the pause point as they were before the call.
C30_RejectedCallChangesNothing ==
    [][RejectedAsClosed =>
        /\ status_code' = status_code
        /\ max_packet_size' = max_packet_size
        /\ available_commands_lst' = available_commands_lst
        /\ pause_point' = pause_point]_vars

\* C30 without the cached packet size: a rejected operation leaves the status
\* code, the list of available commands and the pause point as they were.
C30_RejectedCallKeepsStatusAndList ==
    [][RejectedAsClosed =>
        /\ status_code' = status_code
        /\ available_commands_lst' = available_commands_lst
        /\ pause_point' = pause_point]_vars

\* _read_data is in its loop, before a read of the transport.
InReadLoop(p) == p \in {"read_data", "read_retry"}

\* The read c, made at position p, is one after which the loop is left: the
\* response echoes READ_MEMORY, or the read timed out, or the retry read of the
\* abort handler raised.
EndsReadLoop(c, p) ==
    \/ c.outcome = "timeout"
    \/ c.outcome = "response" /\ c.response.cmd_tag = READ_MEMORY
    \/ p = "read_retry" /\ c.outcome = "abort"

\* C31 as stated: the loop of _read_data is over as soon as the accumulated
\* data reaches the expected length; no read of the transport is made after
\* that.
C31_LoopStopsAtExpectedLength ==
    ~(pc = "read_data" /\ frame.rd_data # <<>>
      /\ Len(frame.rd_data) >= frame.rd_length)

\* C31 amended: every pass of the loop reads the transport, whatever the
\* length of the accumulated data, and the loop is left exactly after a read
\* that gave a response echoing READ_MEMORY, or timed out, or (the retry read)
\* raised.
C31_LoopEndsAtResponseOrTimeout ==
    [][InReadLoop(pc) =>
        /\ Len(wire') = Len(wire) + 1
        /\ LastCall(wire').call = "read"
        /\ ~InReadLoop(pc') <=> EndsReadLoop(LastCall(wire'), pc)]_vars

\* An unsplit read of MaxLen bytes got all its bytes and then read the response
\* that ends the data phase.
C31_Witness ==
    /\ ReadEnded /\ ~frame.split /\ frame.length = MaxLen
    /\ LastCall(wire).outcome = "response"
    /\ LastCall(wire).response.cmd_tag = READ_MEMORY
    /\ wire[Len(wire) - 1].outcome = "bytes"
    /\ result = ReturnedBytes(Memory(frame.address, MaxLen))

\* C32 as stated: after a read of the data phase signalled a data-abort, one
\* more read is made, and what it gives is handled as for a first read: bytes
\* are appended to the data and the loop goes on, a response echoing
\* READ_MEMORY sets the status and ends the loop, a timeout ends the loop with
\* the status NO_RESPONSE (and raises no transport exception).
C32_RetryHandledAsFirstRead ==
    [][pc = "read_retry" =>
        /\ Len(wire') = Len(wire) + 1
        /\ LastCall(wire').call = "read"
        /\ LastCall(wire').outcome = "bytes" =>
               /\ pc' = "read_data"
               /\ frame'.rd_data = frame.rd_data \o LastCall(wire').data
        /\ (LastCall(wire').outcome = "response"
            /\ LastCall(wire').response.cmd_tag = READ_MEMORY) =>
               /\ ~InReadLoop(pc')
               /\ status_code' = LastCall(wire').response.status
        /\ LastCall(wire').outcome = "timeout" =>
               /\ ~InReadLoop(pc')
               /\ status_code' = NO_RESPONSE
               /\ result'.exc.class # TransportTimeout.class]_vars

\* C32 for the retry reads that give bytes or a response: they are handled as
\* a first read is.
C32_RetryBytesAndResponses ==
    [][pc = "read_retry" =>
        /\ Len(wire') = Len(wire) + 1
        /\ LastCall(wire').call = "read"
        /\ LastCall(wire').outcome = "bytes" =>
               /\ pc' = "read_data"
               /\ frame'.rd_data = frame.rd_data \o LastCall(wire').data
        /\ (LastCall(wire').outcome = "response"
            /\ LastCall(wire').response.cmd_tag = READ_MEMORY) =>
               /\ ~InReadLoop(pc')
               /\ status_code' = LastCall(wire').response.status]_vars

\* The WRITE_MEMORY command of the write that ended was sent and got an answer
\* other than SUCCESS (the status of a response read, or NO_RESPONSE after a
\* timeout).
WriteCommandRefused ==
    /\ Ended("write_memory") /\ frame.was_opened
    /\ cmd_packet.tag = WRITE_MEMORY
    /\ frame.exit.how # "none"
    /\ frame.response.cmd_tag = WRITE_MEMORY
    /\ frame.response.status # SUCCESS

\* Every write_data of the running operation comes after the WRITE_MEMORY
\* command, which announces the length of the payload and the memory id, and
\* after a response to it of status SUCCESS.
WriteDataAfterSuccess ==
    \A i \in 1..Len(wire) :
        wire[i].call = "write_data" =>
            \E j \in 1..(i - 2) :
                /\ IsWriteCommand(wire[j])
                /\ wire[j].packet = CmdPacket(WRITE_MEMORY, HAS_DATA_PHASE,
                                              <<frame.address, Len(frame.payload),
                                                ClampDownMemoryId(frame.mem_id)>>)
                /\ wire[j + 1].call = "read" /\ wire[j + 1].outcome = "response"
                /\ wire[j + 1].response.status = SUCCESS

\* C33 as stated: write_data is called only after WRITE_MEMORY was answered
\* with SUCCESS, and for any other answer, no response included, write_memory
\* returns False and has called write_data zero times.
C33_RefusedWriteReturnsFalse ==
    /\ WriteDataAfterSuccess
    /\ WriteCommandRefused =>
          /\ result = ReturnedBool(FALSE)
          /\ Written = <<>>

\* C33 amended: write_data is called only after WRITE_MEMORY was answered with
\* SUCCESS; for any other answer write_memory calls write_data zero times and
\* returns False, or raises McuBootCommandError when raise-on-error is on.
C33_RefusedWriteSendsNoData ==
    /\ WriteDataAfterSuccess
    /\ WriteCommandRefused =>
          /\ Written = <<>>
          /\ \A i \in 1..Len(wire) : wire[i].call # "write_data"
          /\ IF cmd_exception
             THEN result = Raised(McuBootCommandError(WRITE_MEMORY, frame.response.status))
             ELSE result = ReturnedBool(FALSE)

\* A write of MaxLen bytes whose command was not answered returned False
\* without writing data.
C33_Witness ==
    /\ WriteCommandRefused /\ ~cmd_exception
    /\ frame.response.status = NO_RESPONSE
    /\ Len(frame.payload) = MaxLen
    /\ result = ReturnedBool(FALSE) /\ Written = <<>>

\* The position in the wire of the WRITE_MEMORY command of the running write,
\* when it was sent and answered with SUCCESS; 0 otherwise.
DataPhaseFrom ==
    LET at == {j \in 1..(Len(wire) - 1) :
                  /\ IsWriteCommand(wire[j]) /\ wire[j].packet.tag = WRITE_MEMORY
                  /\ wire[j + 1].call = "read" /\ wire[j + 1].outcome = "response"
                  /\ wire[j + 1].response.status = SUCCESS}
    IN  IF at = {} THEN 0 ELSE CHOOSE j \in at : TRUE

\* The write that ended had a data phase in which no call of the transport
\* timed out or was aborted.
CleanWrite ==
    /\ Ended("write_memory") /\ frame.was_opened
    /\ DataPhaseFrom > 0
    /\ \A i \in (DataPhaseFrom + 2)..Len(wire) : wire[i].outcome \notin {"timeout", "abort"}

\* C34: when every chunk of a write is delivered without an error of the
\* transport, the chunks are written in order, exactly one read follows the
\* last chunk and gives the terminal response, the session's status is the
\* status of that response, and write_memory returns True when that status is
\* SUCCESS; otherwise it returns False, or raises McuBootCommandError when
\* raise-on-error is on.
C34_CleanWriteEndsWithOneResponse ==
    CleanWrite =>
        LET first == DataPhaseFrom + 2
            count == Len(frame.data_chunks)
            last == LastCall(wire)
        IN  /\ Len(wire) = first + count
            /\ \A i \in 1..count :
                   /\ wire[first + i - 1].call = "write_data"
                   /\ wire[first + i - 1].data = frame.data_chunks[i]
            /\ last.call = "read" /\ last.outcome = "response"
            /\ status_code = last.response.status
            /\ result = IF last.response.status = SUCCESS THEN ReturnedBool(TRUE)
                        ELSE IF cmd_exception
                        THEN Raised(McuBootCommandError(WRITE_MEMORY, last.response.status))
                        ELSE ReturnedBool(FALSE)

\* A write of MaxLen bytes in more than one chunk, all delivered, whose terminal
\* response has the status FAIL, returned False.
C34_Witness ==
    /\ CleanWrite /\ ~cmd_exception
    /\ Len(frame.payload) = MaxLen /\ Len(frame.data_chunks) > 1
    /\ Written = frame.payload
    /\ LastCall(wire).response.status = FAIL
    /\ status_code = FAIL
    /\ result = ReturnedBool(FALSE)

\* C35: read_memory and write_memory put 0 in the command packet for every
\* memory id in 1..255, whereas flash_erase_all and configure_memory put the
\* caller's memory id in the packet as it is.
C35_ClampOnlyInReadAndWrite ==
    \A i \in 1..Len(wire) :
        IsWriteCommand(wire[i]) =>
            LET packet == wire[i].packet
            IN  /\ (packet.tag \in {READ_MEMORY, WRITE_MEMORY}
                    /\ frame.mem_id \in 1..255) => packet.params[3] = 0
                /\ packet.tag = FLASH_ERASE_ALL => packet.params = <<frame.mem_id>>
                /\ packet.tag = CONFIGURE_MEMORY =>
                       packet.params = <<frame.mem_id, frame.address>>

\* A write_memory for the memory id 255 sent WRITE_MEMORY with the id 0.
C35_Witness ==
    /\ frame.op = "write_memory" /\ frame.mem_id = 255
    /\ \E i \in 1..Len(wire) :
          /\ IsWriteCommand(wire[i]) /\ wire[i].packet.tag = WRITE_MEMORY
          /\ wire[i].packet.params[3] = 0

\* A flash_erase_all for the memory id 255 sent the id 255.
C35_EraseReached ==
    /\ frame.op = "flash_erase_all" /\ frame.mem_id = 255
    /\ wire # <<>> /\ wire[1].packet.params = <<255>>

\* C36: when get_property_list returns a list that is not empty, the session's
\* status code is SUCCESS, whatever the status of the single queries was, also
\* when the last tags queried were rejected or not answered.
C36_NonEmptyListMeansSuccess ==
    (Ended("get_property_list") /\ result.kind = "return" /\ result.list # <<>>) =>
        status_code = SUCCESS

\* A list that is not empty was returned after the query of the last tag was
\* not answered.
C36_Witness ==
    /\ Ended("get_property_list") /\ result.kind = "return" /\ result.list # <<>>
    /\ Len(CommandsSent) = Len(PropertyTags)
    /\ LastCall(wire).outcome = "timeout"
    /\ frame.exit.status_code = NO_RESPONSE
    /\ status_code = SUCCESS

(* ------------------------------ C37 ------------------------------------ *)
\* The running operation sent a GET_PROPERTY command.
QueryMade == \E i \in 1..Len(wire) : /\ wire[i].call = "write_command"
                                     /\ wire[i].packet.tag = GET_PROPERTY

\* write_memory has the list that _split_data returned.
PayloadSplit == frame.op = "write_memory" /\ frame.stage = "main"

\* C37: when the transport needs its data split, every chunk that _split_data
\* returns is at most max_packet_size long, every chunk but the last is exactly
\* that long and none is empty; when the transport does not, the payload is
\* the only chunk and no GET_PROPERTY command is sent.
C37_ChunksFitPacketSize ==
    PayloadSplit =>
        LET chunks == frame.data_chunks
            n == Len(chunks)
        IN  IF need_data_split
            THEN /\ max_packet_size # <<>>
                 /\ \A i \in 1..n : /\ Len(chunks[i]) \in 1..max_packet_size[1]
                                    /\ i < n => Len(chunks[i]) = max_packet_size[1]
            ELSE /\ chunks = <<frame.payload>>
                 /\ ~QueryMade

\* A payload of MaxLen bytes was split in chunks of a size the device gave, the
\* last of them shorter than that size.
C37_Witness ==
    /\ PayloadSplit /\ need_data_split /\ QueryMade
    /\ Len(frame.payload) = MaxLen
    /\ max_packet_size # <<>> /\ max_packet_size[1] < MaxLen
    /\ Len(frame.data_chunks) > 1
    /\ Len(frame.data_chunks[Len(frame.data_chunks)]) < max_packet_size[1]

\* A payload went unsplit to a transport that needs no split.
C37_UnsplitReached ==
    /\ PayloadSplit /\ ~need_data_split
    /\ Len(frame.payload) = MaxLen /\ frame.data_chunks = <<frame.payload>>

(* ------------------------------ C38 ------------------------------------ *)
\* A step in which _send_data wrote one chunk and finished the body of its loop.
ChunkWritten == pc = "write_data" /\ frame'.op = frame.op /\ frame'.chunk = frame.chunk + 1

\* The step called time.sleep.
Slept == Len(frame'.slept) > Len(frame.slept)

\* C38: during one _send_data the delay is inserted at most once, after the
\* first chunk that makes total_sent exceed the pause point, and the pause point
\* is then None, so that no later chunk pauses; with no pause point (None, or
\* the 0 that `if self._pause_point` takes for none) no delay is inserted.
C38_DelayOnceAtPausePoint ==
    [][/\ Len(frame'.slept) <= 1
       /\ Slept => /\ ChunkWritten
                   /\ frame.slept = <<>>
                   /\ pause_point' = <<>>
       /\ ChunkWritten =>
             (Slept <=> /\ pause_point # <<>> /\ pause_point[1] > 0
                        /\ frame.total_sent <= pause_point[1]
                        /\ frame'.total_sent > pause_point[1])
       /\ (pause_point = <<>> \/ pause_point = <<0>>) => ~Slept]_vars

\* One write_memory sent chunks before and after its pause point, and slept
\* once, after the chunk that passed it.
C38_Witness ==
    /\ Ended("write_memory") /\ frame.chunk = 3 /\ frame.total_sent = 3
    /\ frame.slept = <<2>>
    /\ pause_point = <<>>

(* ------------------------------ C39 ------------------------------------ *)
\* A step that ends the query of _get_max_packet_size.
PacketSizeQueryEnds ==
    /\ frame.stage = "max_packet_size" /\ pc \in {"write_command", "read_response"}
    /\ frame'.stage = "main" \/ pc' = "idle"

\* The query was answered by a property response with the status SUCCESS.
PacketSizeGiven ==
    LET a == LastCall(wire')
    IN  /\ a.outcome = "response"
        /\ a.response.status = SUCCESS
        /\ a.response.class = "GetPropertyResponse"

\* The words of the answer to the query.
PacketSizeWords == LastCall(wire').response.values

\* The session keeps n as its packet size and the caller chunks by it.
UsesPacketSize(n) ==
    /\ max_packet_size' = <<n>>
    /\ frame'.op = "write_memory" => frame'.data_chunks = Chunks(frame'.payload, n)
    /\ frame'.op = "read_memory" => frame'.payload_size = n

\* C39: when the MAX_PACKET_SIZE query does not succeed (rejected, not
\* answered, or ended by an McuBoot error, as on a closed session) the session
\* chunks by DEFAULT_MAX_PACKET_SIZE; when it succeeds the session chunks by
\* the first word of the reply.
C39_DefaultOrFirstWord ==
    [][/\ PacketSizeQueryEnds =>
             IF PacketSizeGiven
             THEN Len(PacketSizeWords) > 0 /\ UsesPacketSize(PacketSizeWords[1])
             ELSE UsesPacketSize(DEFAULT_MAX_PACKET_SIZE)
       /\ (pc = "idle" /\ max_packet_size' # max_packet_size) =>
             ~opened /\ UsesPacketSize(DEFAULT_MAX_PACKET_SIZE)]_vars

\* The same, but a successful reply without words ends the caller with an
\* IndexError and leaves the session without packet size.
C39_DefaultOrFirstWordIfAny ==
    [][/\ PacketSizeQueryEnds =>
             IF PacketSizeGiven
             THEN IF Len(PacketSizeWords) > 0
                  THEN UsesPacketSize(PacketSizeWords[1])
                  ELSE result' = Raised(IndexError) /\ max_packet_size' = <<>>
             ELSE UsesPacketSize(DEFAULT_MAX_PACKET_SIZE)
       /\ (pc = "idle" /\ max_packet_size' # max_packet_size) =>
             ~opened /\ UsesPacketSize(DEFAULT_MAX_PACKET_SIZE)]_vars

\* A write of more than DEFAULT_MAX_PACKET_SIZE bytes went out in two chunks
\* after the device rejected the query.
C39_DefaultReached ==
    /\ Ended("write_memory") /\ need_data_split
    /\ \E i \in 1..Len(wire) : /\ wire[i].outcome = "response"
                               /\ wire[i].response.cmd_tag = GET_PROPERTY
                               /\ wire[i].response.status # SUCCESS
    /\ max_packet_size = <<DEFAULT_MAX_PACKET_SIZE>>
    /\ Len(frame.data_chunks) = 2
    /\ Len(frame.data_chunks[1]) = DEFAULT_MAX_PACKET_SIZE

(* ------------------------------ C40 ------------------------------------ *)
\* Bit n (0 the lowest) of a word.
BitOf(word, n) == ShiftRight(word, n) % 2 = 1

\* C40: of the raw words of the fuse lock status the first gives 16 fuses, its
\* bits 0..15, and every following word 32 fuses, its bits 0..31; the fuses of
\* all words carry the indices 0, 1, 2, ... in order, without gap or duplicate,
\* each fuse is locked exactly when its bit is set, and n words (n >= 1) give
\* 16 + 32 * (n - 1) fuses.
C40_FusesSequentialFromBits ==
    Ended("get_fuses") =>
        LET raw_values == frame.raw_values
            n == Len(raw_values)
            fuses == result.list
        IN  /\ Len(fuses) = IF n = 0 THEN 0 ELSE 16 + 32 * (n - 1)
            /\ Len(frame.property_list) = n
            /\ \A k \in 1..Len(fuses) :
                  /\ fuses[k].index = k - 1
                  /\ fuses[k].locked =
                        IF k <= 16
                        THEN BitOf(raw_values[1], k - 1)
                        ELSE BitOf(raw_values[((k - 17) \div 32) + 2], (k - 17) % 32)
            /\ \A c \in 1..n : Len(frame.property_list[c]) = IF c = 1 THEN 16 ELSE 32

\* Two words gave 48 fuses: bit 15 of the first word is fuse 15, its bit 16 is
\* no fuse, and bit 30 of the second word is fuse 46.
C40_Witness ==
    /\ Ended("get_fuses")
    /\ frame.raw_values = <<32768, 1073741824>>
    /\ Len(result.list) = 48
    /\ {k \in 1..48 : result.list[k].locked} = {16, 47}
    /\ result.list[16].index = 15 /\ result.list[47].index = 46

====
